---- MODULE Spec2Model ----
(***************************************************************************)
(* Model of the entity stat store, its two caches, effect expiry and the   *)
(* value resolver of entity-effects-api (src/src/core/Entity.ts), with the *)
(* effect classes of src/src/core/effects.ts, the composed effects of      *)
(* ComposedEffect / EffectComponents / EffectFactory and the providers of  *)
(* ActiveEffects.                                                          *)
(*                                                                         *)
(* A JavaScript Map is a sequence of entries in insertion order when its   *)
(* iteration order matters (_effects, _effectTimings, _valueProviders,     *)
(* _equippedGear) and a function otherwise (stat maps, the two caches).    *)
(* An optional value is a sequence of length 0 (undefined) or 1.           *)
(***************************************************************************)
EXTENDS Integers, Sequences, FiniteSets, TLC

VARIABLES
  now,                 \* Date.now(), in ms
  ticks,               \* number of clock advances so far
  baseStats,           \* Entity._baseStats
  effects,             \* Entity._effects, in insertion order
  effectTimings,       \* Entity._effectTimings, in insertion order
  statsCache,          \* Entity._statsCache: cache key -> StatsCacheEntry
  effectCache,         \* Entity._effectCache: effect id -> EffectCacheEntry
  lastCalculationTime, \* Entity._lastCalculationTime
  valueProviders,      \* Entity._valueProviders, in insertion order
  equippedGear,        \* Entity._equippedGear: entries [slot, gear] in insertion order
  out,                 \* what the last operation returned, invoked and emitted
  hist,                \* history: the calls and computations since the last mutation
  direct,              \* a stats map owned by a caller that invokes apply and
                       \* reverse on it directly, and what it did last
  boundEventConfigs,   \* Entity._boundEventConfigs, in insertion order
  previousBoundStates, \* Entity._previousBoundStates: stat type -> state label
  previousBoundRatios, \* Entity._previousBoundRatios: stat type -> ratio
  enemy,               \* a second entity: its effects, timings and caches
  entityTimings,       \* CooldownEffectApplicator._entityTimings: entity id ->
                       \* entries [id, appliedAt] in insertion order
  triggered,           \* entity id -> when a trigger last added effects to it
  ratioAtLastEvent,    \* history: stat type -> the ratio carried by the last
                       \* ratio-changed event of its subscription, or the
                       \* first ratio remembered when there was none yet
  handlers,            \* EventSystem.handlers: the subscribed handlers, in
                       \* the order of their subscription
  eventHistory,        \* EventSystem.eventHistory
  invoked,             \* the handler calls of the last operation, in order
  caller               \* the objects a caller holds: the object it passed to
                       \* the constructor and the last objects it got from
                       \* the baseStats getter and from getCurrentStats

\* The bound-event subscriptions and their memory
boundVars == <<boundEventConfigs, previousBoundStates, previousBoundRatios>>

\* The cooldown applicator and the second entity it serves
cooldownVars == <<enemy, entityTimings, triggered>>

\* The state outside the entity's effects, stats and subscriptions
\* The event system
eventVars == <<handlers, eventHistory, invoked>>

extVars == <<cooldownVars, ratioAtLastEvent, eventVars, caller>>

vars == <<now, ticks, baseStats, effects, effectTimings, statsCache, effectCache,
          lastCalculationTime, valueProviders, equippedGear, out, hist,
          direct, boundVars, extVars>>

----------------------------------------------------------------------------
(* Bounds of the model *)

InitialTime == 10000
MaxTicks == 2
MaxEffects == 2
MaxProviders == 2
MaxHandlers == 2

(* The clock advances by one of these amounts *)
Deltas == {1, 999}

(* Stat types and the values the callers write into base stats *)
StatTypes == {"x"}
StatValues == {0, 100}

(* Program constant: maxAge in Entity.isCacheValid *)
MaxAge == 1000

----------------------------------------------------------------------------
(* Optional values and maps *)

None == <<>>
Some(v) == <<v>>
IsDefined(o) == o # <<>>

\* JavaScript truthiness of an optional number: undefined and 0 are falsy
Truthy(o) == o # None /\ o # Some(0)

EmptyMap == [s \in {} |-> 0]

\* JavaScript numbers: the integers, with exact arithmetic, and NaN, which
\* every arithmetic operation propagates and every comparison but != rejects
NaN == -1000000007

Plus(a, b) == IF a = NaN \/ b = NaN THEN NaN ELSE a + b

Minus(a, b) == IF a = NaN \/ b = NaN THEN NaN ELSE a - b

Times(a, b) == IF a = NaN \/ b = NaN THEN NaN ELSE a * b

\* current * (1 + impact / current): NaN when current is 0 (impact / 0 is
\* NaN or an infinity, and 0 times either is NaN); otherwise the factor is
\* the fraction (current + impact) / current
TimesOnePlusRatio(current, impact) ==
  IF current = NaN \/ impact = NaN \/ current = 0 THEN NaN
  ELSE LET factor == [num |-> current + impact, den |-> current]
       IN  (current \div factor.den) * factor.num

\* stats.get(k) ?? 0
Get(m, k) == IF k \in DOMAIN m THEN m[k] ELSE 0

\* map.set(k, v) on a map whose order is irrelevant
Put(m, k, v) == [s \in (DOMAIN m) \cup {k} |-> IF s = k THEN v ELSE m[s]]

Range(s) == {s[i] : i \in 1..Len(s)}

Ids(seq) == [i \in 1..Len(seq) |-> seq[i].id]

IdSet(seq) == {seq[i].id : i \in 1..Len(seq)}

HasId(seq, id) == \E i \in 1..Len(seq) : seq[i].id = id

\* Map.set on an insertion-ordered map keyed by .id: an existing key keeps
\* its position and gets the new value, a new key goes to the end
MapSet(seq, e) ==
  IF HasId(seq, e.id)
    THEN [i \in 1..Len(seq) |-> IF seq[i].id = e.id THEN e ELSE seq[i]]
    ELSE Append(seq, e)

\* Map.delete on an insertion-ordered map keyed by .id
MapDelete(seq, id) == SelectSeq(seq, LAMBDA e : e.id # id)

Lookup(seq, id) == seq[CHOOSE i \in 1..Len(seq) : seq[i].id = id]

----------------------------------------------------------------------------
(* Stat bounds: StatBoundCalculator.  A bound is a number or a function of *)
(* the stats; the functions are those of createStatBasedBoundConfig.       *)
(*   [kind |-> "number", value |-> n]                                       *)
(*   [kind |-> "stat", stat |-> s, default |-> d]   stats.get(s) ?? d       *)
(* A StatBoundConfig is [min, max, clampToBounds], min and max optional.   *)

NumberBound(n) == [kind |-> "number", value |-> n, stat |-> "", default |-> 0]

StatBound(s, d) == [kind |-> "stat", value |-> 0, stat |-> s, default |-> d]

\* The value of a bound of a configuration: the number, or the function
\* applied to the stats
BoundValue(bound, stats) ==
  IF bound.kind = "number" THEN bound.value
  ELSE IF bound.stat \in DOMAIN stats THEN stats[bound.stat] ELSE bound.default

BoundConfig(min, max, clampToBounds) ==
  [min |-> min, max |-> max, clampToBounds |-> clampToBounds]

\* StatBoundCalculator.createSimpleBoundConfig(min, max, clampToBounds)
createSimpleBoundConfig(min, max, clampToBounds) ==
  BoundConfig(Some(NumberBound(min)), Some(NumberBound(max)), clampToBounds)

\* StatBoundCalculator.createStatBasedBoundConfig(minStat, maxStat, clampToBounds)
createStatBasedBoundConfig(minStat, maxStat, clampToBounds) ==
  BoundConfig(Some(StatBound(minStat, 0)), Some(StatBound(maxStat, 100)),
              clampToBounds)

\* a > b on JavaScript numbers
Greater(a, b) == a # NaN /\ b # NaN /\ a > b

\* Math.min and Math.max
MathMin(a, b) == IF a = NaN \/ b = NaN THEN NaN ELSE IF a < b THEN a ELSE b

MathMax(a, b) == IF a = NaN \/ b = NaN THEN NaN ELSE IF a > b THEN a ELSE b

\* a !== b on JavaScript numbers
NotSame(a, b) == a = NaN \/ b = NaN \/ a # b

\* A bound calculation that trusts the configuration to give min <= max
calculateBoundsUnswapped(statType, config, stats) ==
  LET currentValue == Get(stats, statType)
      minBound == IF config.min = None THEN 0
                  ELSE BoundValue(config.min[1], stats)
      maxBound == IF config.max = None THEN 100
                  ELSE BoundValue(config.max[1], stats)
      clampedValue == IF config.clampToBounds
                        THEN MathMax(minBound, MathMin(maxBound, currentValue))
                        ELSE currentValue
  IN  [statType |-> statType, currentValue |-> clampedValue,
       minBound |-> minBound, maxBound |-> maxBound,
       isClamped |-> config.clampToBounds /\ NotSame(clampedValue, currentValue),
       config |-> config]

\* StatBoundCalculator.calculateBounds(statType, config, stats)
calculateBounds(statType, config, stats) ==
  LET currentValue == Get(stats, statType)
      min0 == IF config.min = None THEN 0
              ELSE BoundValue(config.min[1], stats)
      max0 == IF config.max = None THEN 100
              ELSE BoundValue(config.max[1], stats)
      swap == Greater(min0, max0)
      minBound == IF swap THEN max0 ELSE min0
      maxBound == IF swap THEN min0 ELSE max0
      clampedValue == IF config.clampToBounds
                        THEN MathMax(minBound, MathMin(maxBound, currentValue))
                        ELSE currentValue
  IN  [statType |-> statType, currentValue |-> clampedValue,
       minBound |-> minBound, maxBound |-> maxBound,
       isClamped |-> config.clampToBounds /\ NotSame(clampedValue, currentValue),
       config |-> config]

\* Ratios are fractions in lowest terms with a positive denominator
Abs(n) == IF n < 0 THEN -n ELSE n

RECURSIVE GCD(_, _)
GCD(a, b) == IF b = 0 THEN a ELSE GCD(b, a % b)

Fraction(n, d) ==
  LET g == GCD(Abs(n), Abs(d))
      s == IF d < 0 THEN -1 ELSE 1
  IN  [num |-> (s * n) \div g, den |-> (s * d) \div g]

FracMinus(a, b) == Fraction(a.num * b.den - b.num * a.den, a.den * b.den)

FracAbs(a) == [num |-> Abs(a.num), den |-> a.den]

FracLess(a, b) == a.num * b.den < b.num * a.den

FracLeq(a, b) == a.num * b.den <= b.num * a.den

\* The tolerance 0.001 of isAtMin, isAtMax, isWithinBounds and of the
\* ratio comparison
Tolerance == Fraction(1, 1000)

\* A ratio that measures the current value from 0 instead of from the
\* lower bound
calculateRatioFromZero(result) ==
  IF result.maxBound = result.minBound THEN Fraction(0, 1)
  ELSE Fraction(result.currentValue, result.maxBound - result.minBound)

\* StatBoundCalculator.calculateRatio(result)
calculateRatio(result) ==
  IF result.maxBound = result.minBound THEN Fraction(0, 1)
  ELSE Fraction(result.currentValue - result.minBound,
                result.maxBound - result.minBound)

\* StatBoundCalculator.calculateDistanceFromMin and calculateDistanceFromMax
calculateDistanceFromMin(result) == result.currentValue - result.minBound

calculateDistanceFromMax(result) == result.maxBound - result.currentValue

\* StatBoundCalculator.isAtMin, isAtMax and isWithinBounds with the default
\* tolerance
isAtMin(result) ==
  FracLeq(Fraction(Abs(result.currentValue - result.minBound), 1), Tolerance)

isAtMax(result) ==
  FracLeq(Fraction(Abs(result.currentValue - result.maxBound), 1), Tolerance)

isWithinBounds(result) ==
  /\ FracLeq(Fraction(result.minBound - result.currentValue, 1), Tolerance)
  /\ FracLeq(Fraction(result.currentValue - result.maxBound, 1), Tolerance)

\* A BoundThresholdConfig: critical, low and high, each optional
ThresholdConfig(critical, low, high) ==
  [critical |-> critical, low |-> low, high |-> high]

DEFAULT_BOUND_THRESHOLDS ==
  ThresholdConfig(Some(Fraction(1, 4)), Some(Fraction(1, 2)), Some(Fraction(3, 4)))

\* threshold ?? fallback
OrElse(o, fallback) == IF o = None THEN fallback ELSE o[1]

\* A description that looks at the high threshold before the low ones
getStateDescriptionHighFirst(result, thresholdConfig) ==
  LET ratio == calculateRatio(result)
  IN  IF isAtMax(result) THEN "Maximum"
      ELSE IF isAtMin(result) THEN "Minimum"
      ELSE IF FracLeq(OrElse(thresholdConfig.high, Fraction(3, 4)), ratio)
        THEN "High"
      ELSE IF FracLeq(ratio, OrElse(thresholdConfig.critical, Fraction(1, 4)))
        THEN "Critical"
      ELSE IF FracLeq(ratio, OrElse(thresholdConfig.low, Fraction(1, 2)))
        THEN "Low"
      ELSE "Normal"

\* StatBoundCalculator.getStateDescription(result, thresholdConfig)
getStateDescription(result, thresholdConfig) ==
  LET ratio == calculateRatio(result)
  IN  IF isAtMax(result) THEN "Maximum"
      ELSE IF isAtMin(result) THEN "Minimum"
      ELSE IF FracLeq(ratio, OrElse(thresholdConfig.critical, Fraction(1, 4)))
        THEN "Critical"
      ELSE IF FracLeq(ratio, OrElse(thresholdConfig.low, Fraction(1, 2)))
        THEN "Low"
      ELSE IF FracLeq(OrElse(thresholdConfig.high, Fraction(3, 4)), ratio)
        THEN "High"
      ELSE "Normal"

----------------------------------------------------------------------------
(* Effects.  One record shape for every effect object:                     *)
(*   kind = "SetValue"      SetValueEffect(id, statType, value, priority)  *)
(*   kind = "Additive"      AdditiveEffect(id, statType, value, priority)  *)
(*   kind = "Conditional"   ConditionalEffect whose condition is           *)
(*                          baseStats[condStat] >= threshold, wrapping     *)
(*                          AdditiveEffect(statType, value)                *)
(*   kind = "StatThreshold" EffectFactory.createStatThresholdEffect(       *)
(*                          condStat, op, threshold, AdditiveEffect(       *)
(*                          statType, value))                              *)
(*   kind = "Multiplicative" MultiplicativeEffect(id, statType, factor)    *)
(*   kind = "Percentage"    PercentageEffect(id, statType, percentage)     *)
(*   kind = "ComposedAdditive", "ComposedMultiplicative",                  *)
(*          "ComposedPercentage"  EffectFactory.createAdditiveEffect,      *)
(*                          createMultiplicativeEffect and                 *)
(*                          createPercentageEffect(id, statType, value)    *)
(*   kind = "ComposedConditional"  EffectFactory.createConditionalEffect(  *)
(*                          ctx => ctx.baseStats[condStat] op threshold,   *)
(*                          wrapped)                                       *)
(*   kind = "BoundConditional"  createBoundConditionalEffect of            *)
(*                          EffectFactory, with condStat,                  *)
(*                          createSimpleBoundConfig(0, 100),               *)
(*                          ratio => ratio <= threshold / 100, wrapped     *)
(*   kind = "Active"        ActiveEffectUtils.createActiveEffect: no stat  *)
(*                          change, answers value requests                 *)
(* statTypes and stackabilityRules are the effect's declarations of the    *)
(* same names.                                                             *)
(* purposes / provides / purposeGate describe the ActiveEffect side:       *)
(* supportedPurposes, the result of provideValue and the result of         *)
(* isActiveForPurpose ("absent" when the method is not defined).           *)
(***************************************************************************)

\* A StatStackability rule; maxStackSize is optional
Rule(statType, stackable, maxStackSize) ==
  [statType |-> statType, stackable |-> stackable, maxStackSize |-> maxStackSize]

\* An effect built with the default stackable = true: its one rule is
\* {statType, stackable: true}
Effect(id, kind, priority, statType, value) ==
  [id |-> id, kind |-> kind, priority |-> priority, statType |-> statType,
   value |-> value, condStat |-> statType, op |-> "none", threshold |-> 0,
   statTypes |-> <<statType>>,
   stackabilityRules |-> <<Rule(statType, TRUE, None)>>,
   isActiveEffect |-> FALSE, purposes |-> {}, provides |-> None,
   purposeGate |-> "absent"]

\* StatThresholdApplicable.isApplicable: the comparison switch
Compare(op, currentValue, threshold) ==
  CASE currentValue = NaN -> op = "!="
    [] op = ">"  -> currentValue > threshold
    [] op = "<"  -> currentValue < threshold
    [] op = ">=" -> currentValue >= threshold
    [] op = "<=" -> currentValue <= threshold
    [] op = "==" -> currentValue = threshold
    [] op = "!=" -> currentValue # threshold
    [] OTHER     -> FALSE

\* Entity.createEffectContext: currentStats is a copy of the map passed in
createEffectContext(currentStats, base, effs) ==
  [currentStats |-> currentStats, baseStats |-> base, effectStack |-> effs]

\* The condition of the modelled ConditionalEffect, reading context.baseStats
Condition(e, context) ==
  Compare(e.op, Get(context.baseStats, e.condStat), e.threshold)

\* StatThresholdApplicable.isApplicable, reading context.currentStats
isApplicable(e, context) ==
  Compare(e.op, Get(context.currentStats, e.condStat), e.threshold)

\* BoundBasedApplicable.isApplicable with the bounds [0, 100] and the
\* condition ratio <= threshold / 100, reading context.currentStats
BoundApplicable(e, context) ==
  LET boundResult == calculateBounds(e.condStat,
                                     createSimpleBoundConfig(0, 100, FALSE),
                                     context.currentStats)
  IN  FracLeq(calculateRatio(boundResult), Fraction(e.threshold, 100))

\* Effect.isActive(context)
isActive(e, context) ==
  CASE e.kind = "Conditional"   -> Condition(e, context)
    [] e.kind = "StatThreshold" -> isApplicable(e, context)
    [] e.kind = "ComposedConditional" -> Condition(e, context)
    [] e.kind = "BoundConditional" -> BoundApplicable(e, context)
    [] OTHER                    -> TRUE

\* AdditiveEffect.apply
AdditiveApply(e, stats) ==
  Put(stats, e.statType, Plus(Get(stats, e.statType), e.value))

\* AdditiveEffect.reverse
AdditiveReverse(e, stats) ==
  Put(stats, e.statType, Minus(Get(stats, e.statType), e.value))

\* MultiplicativeEffect.apply
MultiplicativeApply(e, stats) ==
  Put(stats, e.statType, Times(Get(stats, e.statType), e.value))

\* PercentageEffect.apply: bonus = current * percentage
PercentageApply(e, stats) ==
  LET current == Get(stats, e.statType)
      bonus   == Times(current, e.value)
  IN  Put(stats, e.statType, Plus(current, bonus))

\* SetValueEffect.apply
SetValueApply(e, stats) == Put(stats, e.statType, e.value)

\* The effects built by the wrapping factory methods
Wrappers == {"StatThreshold", "ComposedConditional", "BoundConditional"}

\* SingleStatTarget.getTargets of a factory effect, and
\* MultipleStatTarget.getTargets of a wrapper: the wrapped effect's statTypes
getTargets(e) == IF e.kind \in Wrappers THEN e.statTypes ELSE <<e.statType>>

\* EffectImpact.calculateImpact of the factory effects: AdditiveImpact,
\* MultiplicativeImpact and PercentageImpact, the last two reading
\* context.currentStats
calculateImpact(e, context, statType) ==
  CASE e.kind = "ComposedAdditive" -> e.value
    [] e.kind = "ComposedMultiplicative" ->
         Times(Get(context.currentStats, statType), Minus(e.value, 1))
    [] e.kind = "ComposedPercentage" ->
         Times(Get(context.currentStats, statType), e.value)

\* EffectApplication.applyImpact of the factory effects: AdditiveApplication,
\* MultiplicativeApplication and PercentageApplication
applyImpact(e, stats, statType, impact) ==
  LET current == Get(stats, statType)
  IN  CASE e.kind = "ComposedAdditive" -> Put(stats, statType, Plus(current, impact))
        [] e.kind = "ComposedMultiplicative" ->
             Put(stats, statType, TimesOnePlusRatio(current, impact))
        [] e.kind = "ComposedPercentage" ->
             Put(stats, statType, Plus(current, Times(current, impact)))

\* A reverseImpact that adds the impact once more
reverseImpactAdds(e, stats, statType, impact) ==
  Put(stats, statType, Plus(Get(stats, statType), impact))

\* AdditiveApplication.reverseImpact
reverseImpact(e, stats, statType, impact) ==
  Put(stats, statType, Minus(Get(stats, statType), impact))

\* ComposedEffect.apply of a factory effect (AlwaysApplicable): for every
\* target the impact is computed from the context and applied to stats
RECURSIVE ComposedApply(_, _, _, _)
ComposedApply(e, context, targets, stats) ==
  IF targets = <<>> THEN stats
  ELSE ComposedApply(e, context, Tail(targets),
         applyImpact(e, stats, Head(targets),
                     calculateImpact(e, context, Head(targets))))

\* ComposedEffect.reverse of the factory additive effect
RECURSIVE ComposedReverse(_, _, _, _)
ComposedReverse(e, context, targets, stats) ==
  IF targets = <<>> THEN stats
  ELSE ComposedReverse(e, context, Tail(targets),
         reverseImpact(e, stats, Head(targets),
                       calculateImpact(e, context, Head(targets))))

\* ComposedEffect.apply of a wrapper: once per target the application
\* function runs the wrapped effect's apply
RECURSIVE ApplyPerTarget(_, _, _)
ApplyPerTarget(e, targets, stats) ==
  IF targets = <<>> THEN stats
  ELSE ApplyPerTarget(e, Tail(targets), AdditiveApply(e, stats))

\* Effect.apply(context, stats): the stats map after the call
apply(e, context, stats) ==
  CASE e.kind = "Additive"      -> AdditiveApply(e, stats)
    [] e.kind = "SetValue"      -> SetValueApply(e, stats)
    [] e.kind = "Multiplicative" -> MultiplicativeApply(e, stats)
    [] e.kind = "Percentage"    -> PercentageApply(e, stats)
    [] e.kind \in {"ComposedAdditive", "ComposedMultiplicative",
                   "ComposedPercentage"} ->
         ComposedApply(e, context, getTargets(e), stats)
    [] e.kind = "Conditional"   ->
         IF Condition(e, context) THEN AdditiveApply(e, stats) ELSE stats
    [] e.kind = "StatThreshold" ->
         IF isApplicable(e, context) THEN ApplyPerTarget(e, getTargets(e), stats)
         ELSE stats
    [] e.kind = "ComposedConditional" ->
         IF Condition(e, context) THEN ApplyPerTarget(e, getTargets(e), stats)
         ELSE stats
    [] e.kind = "BoundConditional" ->
         IF BoundApplicable(e, context) THEN ApplyPerTarget(e, getTargets(e), stats)
         ELSE stats
    [] OTHER                    -> stats

\* Effect.reverse(context, stats) of the additive effects: the stats map
\* after the call
reverse(e, context, stats) ==
  CASE e.kind = "Additive"         -> AdditiveReverse(e, stats)
    [] e.kind = "ComposedAdditive" -> ComposedReverse(e, context, getTargets(e), stats)

----------------------------------------------------------------------------
(* The objects the callers hand to the entity *)

\* new SetValueEffect("set", ..., "x", 50, p): set effects are never stackable
SetValueEffects ==
  {[Effect("set", "SetValue", p, "x", 50) EXCEPT
      !.stackabilityRules = <<Rule("x", FALSE, None)>>] : p \in {1, 2}}

AdditiveEffects == {Effect("add", "Additive", p, "x", 10) : p \in {1, 2}}

\* new ConditionalEffect("cond", ..., ctx => ctx.baseStats.x >= 100,
\*                       new AdditiveEffect(..., "x", 5), true, 3)
ConditionalEffects ==
  {[Effect("cond", "Conditional", 3, "x", 5) EXCEPT !.op = ">=", !.threshold = 100]}

\* EffectFactory.createStatThresholdEffect("thr", ..., "x", "<", 50,
\*                       new AdditiveEffect(..., "x", 7), true, 3)
ThresholdEffects ==
  {[Effect("thr", "StatThreshold", 3, "x", 7) EXCEPT !.op = "<", !.threshold = 50]}

\* EffectFactory.createStatThresholdEffect("rage", ..., "x", ">", 50,
\*                       new AdditiveEffect(..., "x", 15), true, 4)
RageEffects ==
  {[Effect("rage", "StatThreshold", 4, "x", 15) EXCEPT !.op = ">", !.threshold = 50]}

\* new AdditiveEffect("solo", ..., "x", 3, false, 1): declared non-stackable
SoloEffects ==
  {[Effect("solo", "Additive", 1, "x", 3) EXCEPT
      !.stackabilityRules = <<Rule("x", FALSE, None)>>]}

\* new ComposedEffectBuilder("free", ...).withStatTypes(["x"]) with the
\* components of createAdditiveEffect(..., "x", 2) and no stackability rule
FreeEffects ==
  {[Effect("free", "ComposedAdditive", 1, "x", 2) EXCEPT !.stackabilityRules = <<>>]}

\* The same with .withStackabilityRules([{statType: "x", stackable: true,
\* maxStackSize: 1}])
CappedEffects ==
  {[Effect("capped", "ComposedAdditive", 1, "x", 4) EXCEPT
      !.stackabilityRules = <<Rule("x", TRUE, Some(1))>>]}

\* ActiveEffectUtils.createActiveEffect(id, ..., supportedPurposes,
\*   valueCalculator, priority); gate "true" is BaseActiveEffect's
\*   isActiveForPurpose, "false" an override returning false, "absent" an
\*   ActiveEffect object without the method
ActiveEffect(id, priority, purposes, provides, gate) ==
  [Effect(id, "Active", priority, "x", 0) EXCEPT
     !.stackabilityRules = <<>>, !.isActiveEffect = TRUE,
     !.purposes = purposes, !.provides = provides, !.purposeGate = gate]

ActiveEffects ==
  { ActiveEffect("aura", 8, {"damage"}, Some(42), "absent"),
    ActiveEffect("muted", 40, {"damage"}, Some(77), "false"),
    ActiveEffect("silent", 12, {"damage", "defense"}, None, "true") }

\* A Gear object: isEquipped is GenericGear's constant true, or an
\* implementation of the interface that answers false
Gear(id, priority, purposes, provides, isEquipped, passiveEffects, slot) ==
  [id |-> id, priority |-> priority, purposes |-> purposes, provides |-> provides,
   isEquipped |-> isEquipped, passiveEffects |-> passiveEffects, slot |-> slot]

GearPool ==
  { Gear("sword", 10, {"damage"}, Some(5), TRUE, <<>>, Some("weapon")),
    Gear("cursed", 20, {"damage"}, Some(1), FALSE,
         <<Effect("hex", "Additive", 1, "x", 3)>>, Some("weapon")),
    Gear("shield", 7, {"defense"}, Some(3), TRUE, <<>>, None) }

\* A ValueProvider object
Provider(id, priority, purposes, provides, active) ==
  [id |-> id, priority |-> priority, purposes |-> purposes, provides |-> provides,
   isActive |-> active]

ProviderPool ==
  { Provider("low", 5, {"damage"}, Some(100), TRUE),
    Provider("zero", 10, {"damage", "defense"}, Some(0), TRUE),
    Provider("off", 30, {"damage"}, Some(9), FALSE),
    Provider("mute", 15, {"damage"}, None, TRUE) }

Purposes == {"damage", "defense", "healing"}

StorePool ==
  SetValueEffects \cup AdditiveEffects \cup ConditionalEffects \cup ThresholdEffects
    \cup RageEffects

CachePool ==
  ConditionalEffects \cup ThresholdEffects \cup {e \in AdditiveEffects : e.priority = 1}

\* EffectFactory.createAdditiveEffect("cadd", ..., "x", 5, true, 1)
ComposedAdditiveEffects == {Effect("cadd", "ComposedAdditive", 1, "x", 5)}

\* new PercentageEffect("pct", ..., "x", 2, true, 1) and
\* EffectFactory.createPercentageEffect("cpct", ..., "x", 2, true, 1):
\* a bonus of 200 percent
PercentageEffects ==
  {Effect("pct", "Percentage", 1, "x", 2), Effect("cpct", "ComposedPercentage", 1, "x", 2)}

\* new MultiplicativeEffect(id, ..., "x", factor, true, priority) and
\* EffectFactory.createMultiplicativeEffect(id, ..., "x", factor, true,
\* priority), with factors 2 and 3
MultiplicativeEffects ==
  {Effect("mul", "Multiplicative", 2, "x", 2),
   Effect("mul3", "Multiplicative", 3, "x", 3),
   Effect("cmul", "ComposedMultiplicative", 2, "x", 2),
   Effect("cmul3", "ComposedMultiplicative", 3, "x", 3)}

\* The effects of the arithmetic specification
ArithPool ==
  {e \in AdditiveEffects : e.priority = 1} \cup PercentageEffects
    \cup MultiplicativeEffects

\* The additive effects a caller applies and reverses directly: on a stat
\* of the caller's map ("x") and on a stat the map lacks ("z")
DirectPool ==
  {e \in AdditiveEffects : e.priority = 1} \cup ComposedAdditiveEffects
    \cup {Effect("addz", "Additive", 1, "z", 10),
          Effect("caddz", "ComposedAdditive", 1, "z", 5)}

\* The stats maps the caller starts with
DirectValues == {-5, 0, 10, 15}

\* The effects the applicators add
StackPool ==
  {e \in SetValueEffects \cup AdditiveEffects : e.priority = 1}
    \cup SoloEffects \cup FreeEffects \cup CappedEffects

\* The effectsToAdd lists of the applicators: one or two effects of the pool
EffectsToAdd ==
  {<<e>> : e \in StackPool} \cup
  {<<e1, e2>> : e1 \in SetValueEffects \cup SoloEffects, e2 \in StackPool}

EffectIds == {e.id : e \in StorePool \cup ActiveEffects} \cup {"hex"}

\* Durations passed to addEffect: omitted, 0, and a positive one
Durations == {None, Some(0), Some(5000)}

\* Arguments of checkExpiredEffects: the default Date.now() and instants
\* around the expiry of a 5000 ms effect attached at the initial time
CheckTimes ==
  {now, InitialTime + 4999, InitialTime + 5000, InitialTime + 5001}

\* The wrapping factory methods around a wrapped effect that lists
\* statTypes and whose apply adds 7 to x:
\*   createStatThresholdEffect("wthr", ..., "x", "<", 50, wrapped, true, 3)
\*   createConditionalEffect("wcond", ..., ctx => ctx.baseStats.x >= 100,
\*                           wrapped, true, 3)
\*   createBoundConditionalEffect("wbound", ..., "x",
\*       createSimpleBoundConfig(0, 100), ratio => ratio <= 0.5, wrapped,
\*       true, 3)
\* with the wrapped effect's statTypes and stackabilityRules
Wrapper(id, kind, op, threshold, statTypes) ==
  [Effect(id, kind, 3, "x", 7) EXCEPT
     !.op = op, !.threshold = threshold, !.statTypes = statTypes,
     !.stackabilityRules =
       [i \in 1..Len(statTypes) |-> Rule(statTypes[i], TRUE, None)]]

WrappedStatTypes == {<<>>, <<"x">>, <<"x", "y">>}

WrapPool ==
  {Wrapper("wthr", "StatThreshold", "<", 50, st) : st \in WrappedStatTypes}
    \cup {Wrapper("wcond", "ComposedConditional", ">=", 100, st) :
            st \in WrappedStatTypes}
    \cup {Wrapper("wbound", "BoundConditional", "<=", 50, st) :
            st \in WrappedStatTypes}

\* Effects attached for a short time, and the durations they are given:
\* omitted, and 1 ms, which the first advance of the clock lets pass
PollPool ==
  {e \in AdditiveEffects : e.priority = 1}
    \cup {e \in ActiveEffects : e.id = "aura"}

PollDurations == {None, Some(1)}

----------------------------------------------------------------------------
(* The stat computation pipeline *)

\* Entity.getCacheKey: entity id plus the sorted, joined effect ids; the
\* string is determined by the set of attached ids
getCacheKey(effs) == {effs[i].id : i \in 1..Len(effs)}

\* A validity test that also accepts an entry exactly maxAge old
isCacheValidInclusive(entry, t) == (t - entry.timestamp) <= MaxAge

\* Entity.isCacheValid
isCacheValid(entry, t) == (t - entry.timestamp) < MaxAge

\* A sort that leaves the effects in insertion order
InsertUnsorted(e, sorted) == Append(sorted, e)

\* A sort that puts an effect ahead of the effects of the same priority
InsertBeforeEqual(e, sorted) ==
  LET k == Cardinality({i \in 1..Len(sorted) : sorted[i].priority < e.priority})
  IN  SubSeq(sorted, 1, k) \o <<e>> \o SubSeq(sorted, k + 1, Len(sorted))

\* Array.prototype.sort((a, b) => a.priority - b.priority): stable, ascending
InsertAscending(e, sorted) ==
  LET k == Cardinality({i \in 1..Len(sorted) : sorted[i].priority <= e.priority})
  IN  SubSeq(sorted, 1, k) \o <<e>> \o SubSeq(sorted, k + 1, Len(sorted))

RECURSIVE SortAscending(_)
SortAscending(seq) ==
  IF seq = <<>> THEN <<>>
  ELSE InsertAscending(seq[Len(seq)], SortAscending(SubSeq(seq, 1, Len(seq) - 1)))

\* The isActive flag getSortedActiveEffects uses for one effect: the cached
\* flag when the entry is valid, else isActive on a context with an empty
\* currentStats map
ActiveFlag(e, effs, base, eCache, t) ==
  IF e.id \in DOMAIN eCache /\ isCacheValid(eCache[e.id], t)
    THEN eCache[e.id].isActive
    ELSE isActive(e, createEffectContext(EmptyMap, base, effs))

\* Entity.getSortedActiveEffects: the returned array
getSortedActiveEffects(effs, base, eCache, t) ==
  SortAscending(SelectSeq(effs, LAMBDA e : ActiveFlag(e, effs, base, eCache, t)))

\* Entity.getSortedActiveEffects: _effectCache after the call
EffectCacheAfter(effs, base, eCache, t) ==
  [id \in (DOMAIN eCache) \cup getCacheKey(effs) |->
     IF id \in getCacheKey(effs)
        /\ ~(id \in DOMAIN eCache /\ isCacheValid(eCache[id], t))
       THEN [effect |-> Lookup(effs, id),
             isActive |-> isActive(Lookup(effs, id),
                                   createEffectContext(EmptyMap, base, effs)),
             timestamp |-> t]
       ELSE eCache[id]]

\* The loop of Entity.calculateStats over the sorted effects
RECURSIVE ApplyAll(_, _, _)
ApplyAll(sorted, context, stats) ==
  IF sorted = <<>> THEN stats
  ELSE ApplyAll(Tail(sorted), context,
                IF isActive(Head(sorted), context)
                  THEN apply(Head(sorted), context, stats)
                  ELSE stats)

\* Entity.calculateStats: the returned map, the effects whose apply ran,
\* and both caches after the call
calculateStats(effs, base, sCache, eCache, t) ==
  LET sorted  == getSortedActiveEffects(effs, base, eCache, t)
      context == createEffectContext(base, base, effs)
      stats   == ApplyAll(sorted, context, base)
  IN  [stats       |-> stats,
       applied     |-> Ids(SelectSeq(sorted, LAMBDA e : isActive(e, context))),
       passes      |-> 1,
       statsCache  |-> Put(sCache, getCacheKey(effs),
                           [stats |-> stats, timestamp |-> t,
                            effectIds |-> Ids(sorted)]),
       effectCache |-> EffectCacheAfter(effs, base, eCache, t)]

\* Entity.getCurrentStats
getCurrentStats(effs, base, sCache, eCache, t) ==
  LET cacheKey == getCacheKey(effs)
  IN  IF cacheKey \in DOMAIN sCache /\ isCacheValid(sCache[cacheKey], t)
        THEN [stats |-> sCache[cacheKey].stats, applied |-> <<>>, passes |-> 0,
              statsCache |-> sCache, effectCache |-> eCache]
        ELSE calculateStats(effs, base, sCache, eCache, t)

----------------------------------------------------------------------------
(* Value resolution: Entity.requestValue *)

\* A gear filter that leaves out isEquipped
GearCanHandle(g, purpose) == purpose \in g.purposes

\* gear.canHandlePurpose(purpose) && gear.isEquipped(context)
GearEligible(g, purpose) == purpose \in g.purposes /\ g.isEquipped

\* provider.canHandlePurpose(purpose) && provider.isActive(context)
ProviderEligible(p, purpose) == purpose \in p.purposes /\ p.isActive

\* isActiveEffect(effect) && supportedPurposes.includes(purpose)
\*   && isActiveForPurpose?.(purpose, context) !== false
EffectEligible(e, purpose) ==
  e.isActiveEffect /\ purpose \in e.purposes /\ e.purposeGate # "false"

\* One entry of the providers array, with what its provideValue returns
\* (GenericGear and BaseStatValueProvider answer undefined for a purpose
\* they cannot handle)
Candidate(obj, type, purpose) ==
  [id |-> obj.id, priority |-> obj.priority, type |-> type,
   value |-> IF purpose \in obj.purposes THEN obj.provides ELSE None]

\* The three collection loops of requestValue
collectProviders(gearEntries, provs, effs, purpose) ==
  LET gears == SelectSeq([i \in 1..Len(gearEntries) |-> gearEntries[i].gear],
                         LAMBDA g : GearEligible(g, purpose))
      ps    == SelectSeq(provs, LAMBDA p : ProviderEligible(p, purpose))
      es    == SelectSeq(effs, LAMBDA e : EffectEligible(e, purpose))
  IN  [i \in 1..Len(gears) |-> Candidate(gears[i], "gear", purpose)]
      \o [i \in 1..Len(ps) |-> Candidate(ps[i], "provider", purpose)]
      \o [i \in 1..Len(es) |-> Candidate(es[i], "effect", purpose)]

\* A sort of the providers that puts the lowest priority first
InsertLowestFirst(c, sorted) ==
  LET k == Cardinality({i \in 1..Len(sorted) : sorted[i].priority <= c.priority})
  IN  SubSeq(sorted, 1, k) \o <<c>> \o SubSeq(sorted, k + 1, Len(sorted))

\* providers.sort((a, b) => b.priority - a.priority): stable, descending
InsertDescending(c, sorted) ==
  LET k == Cardinality({i \in 1..Len(sorted) : sorted[i].priority >= c.priority})
  IN  SubSeq(sorted, 1, k) \o <<c>> \o SubSeq(sorted, k + 1, Len(sorted))

RECURSIVE SortDescending(_)
SortDescending(seq) ==
  IF seq = <<>> THEN <<>>
  ELSE InsertDescending(seq[Len(seq)], SortDescending(SubSeq(seq, 1, Len(seq) - 1)))

\* A test of the answer by truthiness, which drops 0
AnsweredTruthy(value) == Truthy(value)

\* value !== undefined
Answered(value) == value # None

\* The loop over the sorted providers: the result and the ids whose
\* provideValue was invoked, in order
RECURSIVE Consult(_, _)
Consult(cands, consulted) ==
  IF cands = <<>> THEN [value |-> None, consulted |-> consulted]
  ELSE LET c == Head(cands)
       IN  IF Answered(c.value)
             THEN [value |-> Some([value |-> c.value[1], provider |-> c.id]),
                   consulted |-> Append(consulted, c.id)]
             ELSE Consult(Tail(cands), Append(consulted, c.id))

\* Entity.requestValue(purpose): result and invoked provideValue calls
requestValue(gearEntries, provs, effs, purpose) ==
  Consult(SortDescending(collectProviders(gearEntries, provs, effs, purpose)), <<>>)

----------------------------------------------------------------------------
(* Observations of one operation *)

Out0 == [op |-> "init", stats |-> EmptyMap, ok |-> FALSE, ids |-> <<>>,
         value |-> None, applied |-> <<>>, passes |-> 0, consulted |-> <<>>,
         events |-> <<>>]

\* History kept for stating the cache properties: the last calculateStats
\* pass since the last mutation, the last getCurrentStats call since the
\* last mutation, and the kind of the last mutation
Hist0 == [computed |-> None, lastCall |-> None, mutation |-> "none"]

Mutated(kind) == [computed |-> None, lastCall |-> None, mutation |-> kind]

Computed(r) ==
  IF r.passes = 1 THEN Some([at |-> now, stats |-> r.stats]) ELSE hist.computed

\* The caller's map before any direct call
Direct0 == [stats |-> EmptyMap, before |-> EmptyMap, effect |-> None,
            pending |-> FALSE]

\* An emitted event: its type, the id or stat it is about, and further data
Event(type, key, data) == [type |-> type, key |-> key, data |-> data]

----------------------------------------------------------------------------
(* Stackability: Effect.canStackWith and the applicators' guarded adding *)

\* stackabilityRules.find(rule => rule.statType === statType)
FindRule(e, statType) ==
  LET hits == SelectSeq(e.stackabilityRules, LAMBDA r : r.statType = statType)
  IN  IF hits = <<>> THEN None ELSE Some(Head(hits))

\* A rule under which two effects stack unless both are declared
\* non-stackable
canStackUnlessBothRefuse(e, otherEffect, statType) ==
  LET myRule    == FindRule(e, statType)
      otherRule == FindRule(otherEffect, statType)
  IN  IF myRule = None \/ otherRule = None THEN TRUE
      ELSE myRule[1].stackable \/ otherRule[1].stackable

\* BaseEffect.canStackWith and ComposedEffect.canStackWith
canStackWith(e, otherEffect, statType) ==
  LET myRule    == FindRule(e, statType)
      otherRule == FindRule(otherEffect, statType)
  IN  IF myRule = None \/ otherRule = None THEN TRUE
      ELSE myRule[1].stackable /\ otherRule[1].stackable

\* The number of effects of a list that list statType
StackSize(effs, statType) ==
  Len(SelectSeq(effs, LAMBDA x : statType \in Range(x.statTypes)))

\* The body of the loop of BaseEffectApplicator.canAddEffect for one stat
\* type of the effect: TRUE when the loop goes on, FALSE when it returns false
StatAllowsAdding(existingEffects, e, statType) ==
  LET stackabilityRule == FindRule(e, statType)
  IN  IF stackabilityRule = None THEN TRUE
      ELSE /\ stackabilityRule[1].stackable
              \/ ~\E i \in 1..Len(existingEffects) :
                     /\ statType \in Range(existingEffects[i].statTypes)
                     /\ ~canStackWith(existingEffects[i], e, statType)
           /\ ~Truthy(stackabilityRule[1].maxStackSize)
              \/ StackSize(existingEffects, statType)
                   < stackabilityRule[1].maxStackSize[1]

\* BaseEffectApplicator.canAddEffect(entity, effect), with
\* existingEffects = entity.getEffects()
canAddEffect(existingEffects, e) ==
  \A i \in 1..Len(e.statTypes) : StatAllowsAdding(existingEffects, e, e.statTypes[i])

----------------------------------------------------------------------------
(* Bound events: Entity.checkAndEmitBoundEvents.  A BoundEventConfig is    *)
(* [statType, boundConfig, ratioChangeThreshold, positiveChangeOnly,       *)
(*  negativeChangeOnly, minDistanceFromMin, minDistanceFromMax,            *)
(*  maxDistanceFromMin, maxDistanceFromMax, thresholdConfig]; the          *)
(* thresholds, distances and thresholdConfig are optional.                 *)

BoundEventConfig(statType, boundConfig) ==
  [statType |-> statType, boundConfig |-> boundConfig,
   ratioChangeThreshold |-> None,
   positiveChangeOnly |-> FALSE, negativeChangeOnly |-> FALSE,
   minDistanceFromMin |-> None, minDistanceFromMax |-> None,
   maxDistanceFromMin |-> None, maxDistanceFromMax |-> None,
   thresholdConfig |-> None]

\* JavaScript truthiness of an optional ratio
FracTruthy(o) == o # None /\ o[1].num # 0

\* A filter under which a change must exceed the threshold
shouldEmitRatioChangeAbove(eventData, config) ==
  IF ~FracTruthy(eventData.ratioChange) THEN FALSE
  ELSE IF /\ FracTruthy(config.ratioChangeThreshold)
          /\ FracLeq(FracAbs(eventData.ratioChange[1]),
                     config.ratioChangeThreshold[1])
    THEN FALSE
  ELSE IF config.positiveChangeOnly /\ eventData.ratioChange[1].num <= 0
    THEN FALSE
  ELSE IF config.negativeChangeOnly /\ eventData.ratioChange[1].num >= 0
    THEN FALSE
  ELSE TRUE

\* Entity.shouldEmitRatioChangeEvent(eventData, config)
shouldEmitRatioChangeEvent(eventData, config) ==
  IF ~FracTruthy(eventData.ratioChange) THEN FALSE
  ELSE IF /\ FracTruthy(config.ratioChangeThreshold)
          /\ FracLess(FracAbs(eventData.ratioChange[1]),
                      config.ratioChangeThreshold[1])
    THEN FALSE
  ELSE IF config.positiveChangeOnly /\ eventData.ratioChange[1].num <= 0
    THEN FALSE
  ELSE IF config.negativeChangeOnly /\ eventData.ratioChange[1].num >= 0
    THEN FALSE
  ELSE TRUE

\* Entity.shouldEmitThresholdCrossedEvent(eventData, config)
shouldEmitThresholdCrossedEvent(eventData, config) ==
  IF /\ Truthy(config.minDistanceFromMin)
     /\ eventData.distanceFromMin < config.minDistanceFromMin[1]
    THEN FALSE
  ELSE IF /\ Truthy(config.minDistanceFromMax)
          /\ eventData.distanceFromMax < config.minDistanceFromMax[1]
    THEN FALSE
  ELSE IF /\ Truthy(config.maxDistanceFromMin)
          /\ eventData.distanceFromMin > config.maxDistanceFromMin[1]
    THEN FALSE
  ELSE IF /\ Truthy(config.maxDistanceFromMax)
          /\ eventData.distanceFromMax > config.maxDistanceFromMax[1]
    THEN FALSE
  ELSE TRUE

\* map.delete(k) on a map whose order is irrelevant
Delete(m, k) == [s \in (DOMAIN m) \ {k} |-> m[s]]

\* A comparison that reports a change only from a remembered state
stateChangedSinceRemembered(previousState, currentState) ==
  previousState # None /\ previousState # Some(currentState)

\* previousState !== currentState, previousState being undefined when no
\* state is remembered
stateChanged(previousState, currentState) == previousState # Some(currentState)

\* An emission that puts the threshold-crossed event first
emittedCrossedFirst(stateEvent, ratioEvent, crossedEvent) ==
  crossedEvent \o stateEvent \o ratioEvent

\* The events of one pass of a subscription in the order of their emitEvent
\* calls; each argument is the event or nothing
emitted(stateEvent, ratioEvent, crossedEvent) ==
  stateEvent \o ratioEvent \o crossedEvent

\* A memory that keeps the ratio of the last ratio-changed event
rememberRatioWhenEmitted(previous, statType, currentRatio, ratioEvent) ==
  IF ratioEvent # <<>> \/ statType \notin DOMAIN previous
    THEN Put(previous, statType, currentRatio)
    ELSE previous

\* this._previousBoundRatios.set(statType, currentRatio)
rememberRatio(previous, statType, currentRatio, ratioEvent) ==
  Put(previous, statType, currentRatio)

\* Entity.checkAndEmitBoundEventsForStat(statType, config, currentStats) on
\* B = [events, previousBoundStates, previousBoundRatios]
checkAndEmitBoundEventsForStat(B, config, currentStats) ==
  LET statType == config.statType
      previousRatio == IF statType \in DOMAIN B.previousBoundRatios
                         THEN Some(B.previousBoundRatios[statType]) ELSE None
      previousState == IF statType \in DOMAIN B.previousBoundStates
                         THEN Some(B.previousBoundStates[statType]) ELSE None
      Emit(currentRatio, currentState, ratioChanged, eventData) ==
        LET stateEvent == IF stateChanged(previousState, currentState)
                            THEN <<Event("bound_state_changed", statType, eventData)>>
                            ELSE <<>>
            ratioEvent == IF ratioChanged /\ shouldEmitRatioChangeEvent(eventData, config)
                            THEN <<Event("bound_ratio_changed", statType, eventData)>>
                            ELSE <<>>
            crossedEvent == IF shouldEmitThresholdCrossedEvent(eventData, config)
                              THEN <<Event("bound_threshold_crossed", statType, eventData)>>
                              ELSE <<>>
        IN  [events |-> B.events \o emitted(stateEvent, ratioEvent, crossedEvent),
             previousBoundRatios |->
               rememberRatio(B.previousBoundRatios, statType, currentRatio, ratioEvent),
             previousBoundStates |-> Put(B.previousBoundStates, statType, currentState)]
      Check(boundResult, currentRatio, currentState) ==
        Emit(currentRatio, currentState,
             /\ previousRatio # None
             /\ FracLess(Tolerance,
                         FracAbs(FracMinus(currentRatio, previousRatio[1]))),
             [boundResult |-> boundResult,
              previousRatio |-> previousRatio,
              ratioChange |-> IF previousRatio # None
                                THEN Some(FracMinus(currentRatio, previousRatio[1]))
                                ELSE None,
              previousState |-> previousState,
              currentState |-> currentState,
              distanceFromMin |-> calculateDistanceFromMin(boundResult),
              distanceFromMax |-> calculateDistanceFromMax(boundResult),
              isAtMin |-> isAtMin(boundResult),
              isAtMax |-> isAtMax(boundResult),
              isWithinBounds |-> isWithinBounds(boundResult)])
      CheckResult(boundResult) ==
        Check(boundResult, calculateRatio(boundResult),
              getStateDescription(boundResult,
                                  OrElse(config.thresholdConfig, DEFAULT_BOUND_THRESHOLDS)))
  IN  CheckResult(calculateBounds(statType, config.boundConfig, currentStats))

\* The loop of Entity.checkAndEmitBoundEvents over the registered
\* configurations, in the order of registration
RECURSIVE checkAndEmitBoundEvents(_, _, _)
checkAndEmitBoundEvents(B, configs, currentStats) ==
  IF configs = <<>> THEN B
  ELSE checkAndEmitBoundEvents(
         checkAndEmitBoundEventsForStat(B, Head(configs), currentStats),
         Tail(configs), currentStats)

\* The history of ratio-changed events after a pass that left B
RatioHistory(h, B) ==
  [statType \in DOMAIN B.previousBoundRatios |->
     IF \/ statType \notin DOMAIN h
        \/ \E i \in 1..Len(B.events) :
             B.events[i].type = "bound_ratio_changed" /\ B.events[i].key = statType
       THEN B.previousBoundRatios[statType]
       ELSE h[statType]]

\* The entity's record of the previous check, with no event emitted yet
BoundState ==
  [events |-> <<>>, previousBoundStates |-> previousBoundStates,
   previousBoundRatios |-> previousBoundRatios]

\* A bound calculation that stores the clamped value as the base stat
calculateStatBoundsStoring(effs, base, sCache, eCache, t, statType, config) ==
  LET Bounded(r, result) ==
        [result |-> result,
         baseStats |-> IF result.isClamped
                         THEN Put(base, statType, result.currentValue) ELSE base,
         statsCache |-> r.statsCache, effectCache |-> r.effectCache,
         applied |-> r.applied, passes |-> r.passes, stats |-> r.stats]
      Calculated(r) == Bounded(r, calculateBounds(statType, config, r.stats))
  IN  Calculated(getCurrentStats(effs, base, sCache, eCache, t))

\* Entity.calculateStatBounds(statType, config): the result and the entity's
\* base stats and caches after the call
calculateStatBounds(effs, base, sCache, eCache, t, statType, config) ==
  LET Calculated(r) ==
        [result |-> calculateBounds(statType, config, r.stats), baseStats |-> base,
         statsCache |-> r.statsCache, effectCache |-> r.effectCache,
         applied |-> r.applied, passes |-> r.passes, stats |-> r.stats]
  IN  Calculated(getCurrentStats(effs, base, sCache, eCache, t))

\* Entity.getStatBounds(statType, min, max, clampToBounds)
getStatBounds(effs, base, sCache, eCache, t, statType, min, max, clampToBounds) ==
  calculateStatBounds(effs, base, sCache, eCache, t, statType,
                      createSimpleBoundConfig(min, max, clampToBounds))

\* Bounds, configurations and stats handed to the bound calculator
BoundNumbers == {-10, 0, 50, 200}

BoundConfigs ==
  {BoundConfig(None, None, c) : c \in BOOLEAN}
    \cup {createSimpleBoundConfig(lo, hi, c) :
            lo \in BoundNumbers, hi \in BoundNumbers, c \in BOOLEAN}
    \cup {BoundConfig(None, Some(NumberBound(hi)), c) :
            hi \in {-10, 200}, c \in BOOLEAN}
    \cup {BoundConfig(Some(NumberBound(lo)), None, c) :
            lo \in {50, 200}, c \in BOOLEAN}
    \cup {createStatBasedBoundConfig("y", "x", c) : c \in BOOLEAN}

BoundStatTypes == {"x", "y"}

BoundStats ==
  {[s \in {"x"} |-> v] : v \in {-20, 0, 30, 50, 75, 120, 250}}
    \cup {[s \in {"x", "y"} |-> IF s = "x" THEN 30 ELSE w] : w \in {10, 40}}

\* The configurations of the results whose ratio and state are asked for
RatioConfigs ==
  {createSimpleBoundConfig(lo, hi, c) :
     lo \in {0, 50}, hi \in {50, 100, 200}, c \in BOOLEAN}

\* The thresholds handed to getStateDescription: the defaults, a
\* configuration that sets none, and one whose high threshold lies below its
\* low threshold
ThresholdConfigs ==
  {DEFAULT_BOUND_THRESHOLDS,
   ThresholdConfig(None, None, None),
   ThresholdConfig(Some(Fraction(1, 10)), Some(Fraction(1, 2)),
                   Some(Fraction(2, 5)))}

\* The configurations an entity is asked about
EntityBoundConfigs ==
  {createSimpleBoundConfig(0, 50, c) : c \in BOOLEAN}
    \cup {createStatBasedBoundConfig("y", "x", TRUE)}

\* The effects of an entity whose bounds are asked for: the conditional
\* "cond", which adds 5 to x while the base x is at least 100
BoundsPool == ConditionalEffects

\* The bound event configurations registered with an entity
BoundEventConfigs ==
  {[BoundEventConfig("x", createSimpleBoundConfig(0, 50, TRUE)) EXCEPT
      !.ratioChangeThreshold = Some(Fraction(1, 10)),
      !.positiveChangeOnly = TRUE,
      !.maxDistanceFromMax = Some(45)],
   BoundEventConfig("y", BoundConfig(None, None, FALSE))}

\* The values of x set while subscriptions listen, and the subscriptions: on
\* [0, 100] the ratios are 0.5, 0.55, 0.65 and 0.75 for 50, 55, 65 and 75,
\* and a change of 5 on [0, 10000] is a change of ratio of 0.0005.  The
\* only change that equals a ratio threshold exactly is 0.25, between 0.5
\* and 0.75, where the arithmetic of doubles is exact
EventValues == {-5, 0, 50, 55, 65, 75, 100}

SubscriptionPool ==
  {[BoundEventConfig("x", createSimpleBoundConfig(0, 100, FALSE)) EXCEPT
      !.ratioChangeThreshold = Some(Fraction(1, 10))],
   [BoundEventConfig("x", createSimpleBoundConfig(0, 100, FALSE)) EXCEPT
      !.positiveChangeOnly = TRUE],
   [BoundEventConfig("x", createSimpleBoundConfig(0, 100, FALSE)) EXCEPT
      !.ratioChangeThreshold = Some(Fraction(1, 4)),
      !.negativeChangeOnly = TRUE],
   BoundEventConfig("x", createSimpleBoundConfig(0, 10000, FALSE)),
   [BoundEventConfig("x", createSimpleBoundConfig(0, 100, FALSE)) EXCEPT
      !.minDistanceFromMin = Some(50),
      !.maxDistanceFromMin = Some(65),
      !.minDistanceFromMax = Some(35)],
   [BoundEventConfig("x", createSimpleBoundConfig(0, 100, FALSE)) EXCEPT
      !.maxDistanceFromMin = Some(0)],
   [BoundEventConfig("x", createSimpleBoundConfig(0, 100, FALSE)) EXCEPT
      !.minDistanceFromMin = Some(0),
      !.maxDistanceFromMax = Some(100)],
   BoundEventConfig("y", BoundConfig(None, None, FALSE))}

----------------------------------------------------------------------------
(* Entity methods that change the effect set, as functions on the part of  *)
(* the entity they touch: S = [effects, effectTimings, statsCache,         *)
(* effectCache, lastCalculationTime, events]                               *)

Store == [effects |-> effects, effectTimings |-> effectTimings,
          statsCache |-> statsCache, effectCache |-> effectCache,
          lastCalculationTime |-> lastCalculationTime, events |-> <<>>]

\* An invalidation that clears the stats cache and keeps the effect cache
invalidateStatsCacheOnly(S, t) ==
  [S EXCEPT !.statsCache = EmptyMap, !.lastCalculationTime = t]

\* Entity.invalidateCache
invalidateCache(S, t) ==
  [S EXCEPT !.statsCache = EmptyMap, !.effectCache = EmptyMap,
            !.lastCalculationTime = t]

\* The EffectTiming record built by Entity.addEffect
Timing(e, duration, t) ==
  [id |-> e.id, appliedAt |-> t, duration |-> duration,
   expiresAt |-> IF Truthy(duration) THEN Some(t + duration[1]) ELSE None]

\* An addEffect that attaches the effect only when the stackability rules
\* of the attached effects allow it
addEffectIfStackable(S, e, duration, t) ==
  IF canAddEffect(S.effects, e)
    THEN LET S1 == [S EXCEPT !.effects = MapSet(S.effects, e),
                             !.effectTimings =
                               MapSet(S.effectTimings, Timing(e, duration, t))]
             S2 == invalidateCache(S1, t)
         IN  [S2 EXCEPT !.events = Append(S.events, Event("effect_added", e.id, duration))]
    ELSE S

\* An addEffect that first detaches the effects whose expiresAt has passed
addEffectDroppingExpired(S, e, duration, t) ==
  LET gone == {tm.id : tm \in {x \in Range(S.effectTimings) :
                                 Truthy(x.expiresAt) /\ t >= x.expiresAt[1]}}
      S1 == [S EXCEPT
               !.effects =
                 MapSet(SelectSeq(S.effects, LAMBDA x : x.id \notin gone), e),
               !.effectTimings =
                 MapSet(SelectSeq(S.effectTimings, LAMBDA x : x.id \notin gone),
                        Timing(e, duration, t))]
      S2 == invalidateCache(S1, t)
  IN  [S2 EXCEPT !.events = Append(S.events, Event("effect_added", e.id, duration))]

\* An addEffect that leaves the timing of an attached id as it was
addEffectKeepingTiming(S, e, duration, t) ==
  LET S1 == [S EXCEPT !.effects = MapSet(S.effects, e),
                      !.effectTimings =
                        IF HasId(S.effectTimings, e.id) THEN S.effectTimings
                        ELSE MapSet(S.effectTimings, Timing(e, duration, t))]
      S2 == invalidateCache(S1, t)
  IN  [S2 EXCEPT !.events = Append(S.events, Event("effect_added", e.id, duration))]

\* Entity.addEffect(effect, duration)
addEffect(S, e, duration, t) ==
  LET S1 == [S EXCEPT !.effects = MapSet(S.effects, e),
                      !.effectTimings = MapSet(S.effectTimings, Timing(e, duration, t))]
      S2 == invalidateCache(S1, t)
  IN  [S2 EXCEPT !.events = Append(S.events, Event("effect_added", e.id, duration))]

\* A removeEffect that detaches the effect and leaves the stats cache alone
removeEffectNoInvalidate(S, id, t) ==
  IF HasId(S.effects, id)
    THEN [S EXCEPT !.effects = MapDelete(S.effects, id),
                   !.effectCache = [k \in (DOMAIN S.effectCache) \ {id}
                                      |-> S.effectCache[k]],
                   !.effectTimings = MapDelete(S.effectTimings, id),
                   !.events = Append(S.events, Event("effect_removed", id, None))]
    ELSE S

\* Entity.removeEffect(effectId): the entity after the call
removeEffect(S, id, t) ==
  IF HasId(S.effects, id)
    THEN LET S1 == [S EXCEPT !.effects = MapDelete(S.effects, id),
                             !.effectCache = [k \in (DOMAIN S.effectCache) \ {id}
                                                |-> S.effectCache[k]],
                             !.effectTimings = MapDelete(S.effectTimings, id)]
             S2 == invalidateCache(S1, t)
         IN  [S2 EXCEPT !.events = Append(S.events, Event("effect_removed", id, None))]
    ELSE S

\* An expiry test that keeps an effect at the very instant it expires
ExpiredStrict(timing, currentTime) ==
  Truthy(timing.expiresAt) /\ currentTime > timing.expiresAt[1]

\* timing.expiresAt && currentTime >= timing.expiresAt
Expired(timing, currentTime) ==
  Truthy(timing.expiresAt) /\ currentTime >= timing.expiresAt[1]

\* First loop of Entity.checkExpiredEffects: the ids to remove
expiredEffects(timings, currentTime) ==
  Ids(SelectSeq(timings, LAMBDA tm : Expired(tm, currentTime)))

\* A loop calling removeEffect for each id of a list
RECURSIVE RemoveEach(_, _, _)
RemoveEach(S, ids, t) ==
  IF ids = <<>> THEN S
  ELSE RemoveEach(removeEffect(S, Head(ids), t), Tail(ids), t)

\* A loop calling addEffect, without duration, for each effect of a list
RECURSIVE AddEach(_, _, _)
AddEach(S, effs, t) ==
  IF effs = <<>> THEN S
  ELSE AddEach(addEffect(S, Head(effs), None, t), Tail(effs), t)

\* The entity takes the values of S
Commit(S) ==
  /\ effects' = S.effects
  /\ effectTimings' = S.effectTimings
  /\ statsCache' = S.statsCache
  /\ effectCache' = S.effectCache
  /\ lastCalculationTime' = S.lastCalculationTime

----------------------------------------------------------------------------
(* The applicators' guarded adding *)

\* BaseEffectApplicator.addEffects(entity): the entity after the loop
RECURSIVE addEffects(_, _, _)
addEffects(S, effectsToAdd, t) ==
  IF effectsToAdd = <<>> THEN S
  ELSE addEffects(IF canAddEffect(S.effects, Head(effectsToAdd))
                    THEN addEffect(S, Head(effectsToAdd), None, t)
                    ELSE S,
                  Tail(effectsToAdd), t)

----------------------------------------------------------------------------
(* Objects handed over the boundary of the entity.  An object the caller   *)
(* holds is "own" when only the caller holds it (the entity made or kept a *)
(* copy) and "shared" when it is the very object the entity uses.          *)

\* A cache hit that returns the cached map itself
cachedStatsReturnedAsIs == "shared"

\* Entity constructor: this._baseStats = { ...baseStats }
constructorBaseStats == "own"

\* Entity.baseStats getter: return { ...this._baseStats }
baseStatsGetter == "own"

\* Entity.getCurrentStats on a cache hit: return new Map(cached.stats)
cachedStatsReturned == "own"

\* Entity.cacheStats keeps stats: new Map(stats), so the map calculateStats
\* returns is not the cached one
calculatedStatsReturned == "own"

\* The caller after new Entity(id, given) with given = {x: 0}
Caller0 ==
  [given |-> [s \in {"x"} |-> 0], givenIs |-> constructorBaseStats,
   base |-> EmptyMap, baseIs |-> "none",
   stats |-> EmptyMap, statsIs |-> "none", statsFrom |-> "none",
   statsKey |-> {}, statsAt |-> 0]

\* The values a caller writes into the objects it holds
CallerValues == {7}

\* The cache entry whose map the caller holds is still in the stats cache
HoldsCachedMap(c, sCache) ==
  /\ c.statsIs = "shared"
  /\ c.statsKey \in DOMAIN sCache
  /\ sCache[c.statsKey].timestamp = c.statsAt
  /\ sCache[c.statsKey].stats = c.stats

----------------------------------------------------------------------------
(* CooldownEffectApplicator.  One applicator serves two entities, "player" *)
(* (the entity of the other sections) and "enemy".                        *)

EntityIds == {"player", "enemy"}

\* new Entity("enemy", {x: 0}): no effect attached, empty caches
Store0 == [effects |-> <<>>, effectTimings |-> <<>>, statsCache |-> EmptyMap,
           effectCache |-> EmptyMap, lastCalculationTime |-> 0, events |-> <<>>]

EnemyBaseStats == [s \in {"x"} |-> 0]

\* The constructor arguments cooldownDuration, effectsToAdd and
\* triggerEventTypeName of
\*   new CooldownEffectApplicator(id, name, [add, solo], [], 1000,
\*                                EventType.CUSTOM_EVENT, "ability_trigger")
cooldownDuration == 1000

CooldownEffectsToAdd ==
  <<Effect("add", "Additive", 1, "x", 10),
    [Effect("solo", "Additive", 1, "x", 3) EXCEPT
       !.stackabilityRules = <<Rule("x", FALSE, None)>>]>>

triggerEventTypeName == "ability_trigger"

\* A custom event: EventType.CUSTOM_EVENT with data.type = name
CustomEvent(name) == Event("custom_event", name, None)

\* The events handed to the applicator
TriggerEvents == {CustomEvent("ability_trigger"), CustomEvent("power_surge")}

\* this._entityTimings.get(entityId), an empty map when there is none
TimingsOf(T, entityId) == IF entityId \in DOMAIN T THEN T[entityId] ELSE <<>>

\* A cooldown test that looks at the timings of every entity
isOnCooldownAnyEntity(T, entityId, currentTime) ==
  \E id \in DOMAIN T : \E i \in 1..Len(T[id]) :
    currentTime - T[id][i].appliedAt < cooldownDuration

\* CooldownEffectApplicator.isOnCooldown(entityId, currentTime)
isOnCooldown(T, entityId, currentTime) ==
  \E i \in 1..Len(TimingsOf(T, entityId)) :
    currentTime - TimingsOf(T, entityId)[i].appliedAt < cooldownDuration

\* CooldownEffectApplicator.setCooldown(entityId, effectId, appliedAt)
setCooldown(T, entityId, effectId, appliedAt) ==
  [id \in DOMAIN T \cup {entityId} |->
     IF id = entityId
       THEN MapSet(TimingsOf(T, entityId), [id |-> effectId, appliedAt |-> appliedAt])
       ELSE T[id]]

\* The predicate of the applicator's one condition, with
\* BaseEffectApplicator.checkConditions around it
checkConditions(event) ==
  event.type = "custom_event" /\ event.key = triggerEventTypeName

\* The loop of handleEventWithEntity over effectsToAdd: the entity S and the
\* timings T after it
RECURSIVE addWithCooldown(_, _, _, _, _)
addWithCooldown(S, T, effectsToAdd, entityId, t) ==
  IF effectsToAdd = <<>> THEN [S |-> S, T |-> T]
  ELSE LET e == Head(effectsToAdd)
       IN  IF canAddEffect(S.effects, e)
             THEN addWithCooldown(addEffect(S, e, Some(cooldownDuration), t),
                                  setCooldown(T, entityId, e.id, t),
                                  Tail(effectsToAdd), entityId, t)
             ELSE addWithCooldown(S, T, Tail(effectsToAdd), entityId, t)

\* CooldownEffectApplicator.handleEventWithEntity(event, entity) at Date.now()
\* = t: the entity, the timings and the returned flag.  getEntityContext
\* calls getCurrentStats, which fills the entity's caches.
handleEventWithEntity(S, base, T, event, entityId, t) ==
  IF isOnCooldown(T, entityId, t) THEN [S |-> S, T |-> T, added |-> FALSE]
  ELSE LET Added(a) == [S |-> a.S, T |-> a.T, added |-> a.S.events # <<>>]
           Handle(S1) ==
             IF ~checkConditions(event) THEN [S |-> S1, T |-> T, added |-> FALSE]
             ELSE Added(addWithCooldown(S1, T, CooldownEffectsToAdd, entityId, t))
           WithContext(r) ==
             Handle([S EXCEPT !.statsCache = r.statsCache,
                              !.effectCache = r.effectCache])
       IN  WithContext(getCurrentStats(S.effects, base, S.statsCache,
                                       S.effectCache, t))

\* CooldownEffectApplicator.checkExpiredEffects(entityId, currentTime): the
\* timings after the call
checkExpiredCooldowns(T, entityId, currentTime) ==
  IF entityId \notin DOMAIN T THEN T
  ELSE LET kept == SelectSeq(T[entityId],
                             LAMBDA c : ~(currentTime - c.appliedAt >= cooldownDuration))
       IN  IF kept = <<>> THEN [id \in (DOMAIN T) \ {entityId} |-> T[id]]
           ELSE [T EXCEPT ![entityId] = kept]

----------------------------------------------------------------------------
(* The event system with subscribed handlers.  EventSystem.emit calls the  *)
(* handlers of the event's type synchronously, so a handler runs inside    *)
(* the entity operation that emitted the event and may call the entity     *)
(* again.  The operations are functions on W, the entity and the event     *)
(* system together:                                                        *)
(*   [baseStats, effects, effectTimings, statsCache, effectCache,          *)
(*    lastCalculationTime, boundEventConfigs, previousBoundStates,         *)
(*    previousBoundRatios, eventHistory, invoked, events, thrown]          *)
(* events lists the emitted events in the order of the emit calls, and     *)
(* thrown says that an exception is propagating.  The operations of the    *)
(* earlier sections are these with no handler subscribed and the history   *)
(* left out.                                                               *)
(* A handler is [id, types, does]: it is subscribed to each of its event   *)
(* types and                                                               *)
(*   "throw"        throws                                                 *)
(*   "note"         returns                                                *)
(*   "revive"       calls entity.setStat(statType, 50) when the            *)
(*                  event says the stat's state is "Minimum"               *)
(*   "unsubscribe"  calls entity.unregisterBoundEventConfig(statType)      *)

\* EventSystem.maxHistorySize, scaled down from 1000
maxHistorySize == 2

Handler(id, types, does) == [id |-> id, types |-> types, does |-> does]

\* The event types of the entity's own changes
ChangeEvents == {"stat_changed", "effect_added", "effect_removed"}

\* The handlers subscribed with eventSystem.on(type, handler)
HandlerPool ==
  {Handler("thrower", ChangeEvents, "throw"),
   Handler("logger", ChangeEvents, "note"),
   Handler("reviver", {"bound_state_changed"}, "revive"),
   Handler("unsubscriber", {"bound_state_changed"}, "unsubscribe")}

\* this.handlers.get(event.type), in the order of a Set
HandlersFor(type) == SelectSeq(handlers, LAMBDA h : type \in h.types)

\* An emit that lets the exception of a handler propagate
rethrow(W) == W

\* try { handler(event) } catch (error) { console.error(...) }
catch(W) == [W EXCEPT !.thrown = FALSE]

\* EventSystem.addToHistory(event)
addToHistory(W, event) ==
  LET h == Append(W.eventHistory, event)
  IN  [W EXCEPT !.eventHistory = IF Len(h) > maxHistorySize THEN Tail(h) ELSE h]

\* Entity.unregisterBoundEventConfig(statType) on W
unregisterBoundEventConfig(W, statType) ==
  [W EXCEPT !.boundEventConfigs = SelectSeq(@, LAMBDA c : c.statType # statType),
            !.previousBoundStates = Delete(@, statType),
            !.previousBoundRatios = Delete(@, statType)]

RECURSIVE invoke(_, _, _, _)
RECURSIVE runHandlers(_, _, _, _)
RECURSIVE emit(_, _, _)
RECURSIVE emitAll(_, _, _)
RECURSIVE setStat(_, _, _, _)
RECURSIVE checkAndEmitBoundEventsFrom(_, _, _, _)
RECURSIVE checkAndEmitBoundEventsForStatOn(_, _, _, _)

\* handler(event)
invoke(W, h, event, t) ==
  CASE h.does = "throw" -> [W EXCEPT !.thrown = TRUE]
    [] h.does = "note" -> W
    [] h.does = "revive" ->
         IF event.data.currentState = "Minimum"
           THEN setStat(W, event.key, 50, t) ELSE W
    [] h.does = "unsubscribe" -> unregisterBoundEventConfig(W, event.key)

\* handlers.forEach(handler => { try { handler(event) } catch ... })
runHandlers(W, hs, event, t) ==
  IF hs = <<>> \/ W.thrown THEN W
  ELSE LET W1 == [W EXCEPT !.invoked = Append(@, [handler |-> Head(hs).id,
                                                   type |-> event.type])]
       IN  runHandlers(catch(invoke(W1, Head(hs), event, t)), Tail(hs), event, t)

\* Entity.emitEvent(event): EventSystem.emit(event)
emit(W, event, t) ==
  LET W1 == runHandlers([W EXCEPT !.events = Append(@, event)],
                        HandlersFor(event.type), event, t)
  IN  IF W1.thrown THEN W1 ELSE addToHistory(W1, event)

\* Consecutive emitEvent calls of one method
emitAll(W, events, t) ==
  IF events = <<>> \/ W.thrown THEN W
  ELSE emitAll(emit(W, Head(events), t), Tail(events), t)

\* Entity.checkAndEmitBoundEventsForStat(statType, config, currentStats) on
\* W: the event data and the three decisions are taken from the memory as it
\* is on entry, the events are emitted, and the memory is written last
checkAndEmitBoundEventsForStatOn(W, config, currentStats, t) ==
  LET B == checkAndEmitBoundEventsForStat(
             [events |-> <<>>, previousBoundStates |-> W.previousBoundStates,
              previousBoundRatios |-> W.previousBoundRatios],
             config, currentStats)
      W1 == emitAll(W, B.events, t)
  IN  IF W1.thrown THEN W1
      ELSE [W1 EXCEPT
              !.previousBoundRatios =
                 Put(@, config.statType, B.previousBoundRatios[config.statType]),
              !.previousBoundStates =
                 Put(@, config.statType, B.previousBoundStates[config.statType])]

\* The loop of Entity.checkAndEmitBoundEvents: a Map iterator goes on to the
\* first entry of the map as it is now that it has not visited
checkAndEmitBoundEventsFrom(W, visited, currentStats, t) ==
  LET rest == SelectSeq(W.boundEventConfigs, LAMBDA c : c.statType \notin visited)
  IN  IF rest = <<>> \/ W.thrown THEN W
      ELSE checkAndEmitBoundEventsFrom(
             checkAndEmitBoundEventsForStatOn(W, Head(rest), currentStats, t),
             visited \cup {Head(rest).statType}, currentStats, t)

\* Entity.checkAndEmitBoundEvents() on W
checkAndEmitBoundEventsOn(W, t) ==
  LET r == getCurrentStats(W.effects, W.baseStats, W.statsCache, W.effectCache, t)
  IN  checkAndEmitBoundEventsFrom(
        [W EXCEPT !.statsCache = r.statsCache, !.effectCache = r.effectCache],
        {}, r.stats, t)

\* Entity.setStat(statType, value) on W
setStat(W, statType, value, t) ==
  LET base == Put(W.baseStats, statType, value)
      W1 == emit([W EXCEPT !.baseStats = base, !.statsCache = EmptyMap],
                 Event("stat_changed", statType, <<value, base[statType]>>), t)
  IN  IF W1.thrown THEN W1 ELSE checkAndEmitBoundEventsOn(W1, t)

\* An entity method that changes S and emits the last event of S.events as
\* its last statement, on W
emitLast(W, t) ==
  emit([W EXCEPT !.events = SubSeq(@, 1, Len(@) - 1)], W.events[Len(W.events)], t)

\* The entity and the event system before an operation
World ==
  [baseStats |-> baseStats, effects |-> effects, effectTimings |-> effectTimings,
   statsCache |-> statsCache, effectCache |-> effectCache,
   lastCalculationTime |-> lastCalculationTime,
   boundEventConfigs |-> boundEventConfigs,
   previousBoundStates |-> previousBoundStates,
   previousBoundRatios |-> previousBoundRatios,
   eventHistory |-> eventHistory, invoked |-> <<>>, events |-> <<>>,
   thrown |-> FALSE]

\* The entity and the event system take the values of W
CommitWorld(W) ==
  /\ baseStats' = W.baseStats
  /\ Commit(W)
  /\ boundEventConfigs' = W.boundEventConfigs
  /\ previousBoundStates' = W.previousBoundStates
  /\ previousBoundRatios' = W.previousBoundRatios
  /\ ratioAtLastEvent' =
       [statType \in DOMAIN RatioHistory(ratioAtLastEvent, W)
                       \cap {c.statType : c \in Range(W.boundEventConfigs)}
          |-> RatioHistory(ratioAtLastEvent, W)[statType]]
  /\ eventHistory' = W.eventHistory
  /\ invoked' = W.invoked

----------------------------------------------------------------------------
(* Operations of the entity *)

Init ==
  /\ now = InitialTime
  /\ ticks = 0
  /\ baseStats = [s \in {"x"} |-> 0]
  /\ effects = <<>>
  /\ effectTimings = <<>>
  /\ statsCache = EmptyMap
  /\ effectCache = EmptyMap
  /\ lastCalculationTime = 0
  /\ valueProviders = <<>>
  /\ equippedGear = <<>>
  /\ out = Out0
  /\ hist = Hist0
  /\ direct = Direct0
  /\ boundEventConfigs = <<>>
  /\ previousBoundStates = EmptyMap
  /\ previousBoundRatios = EmptyMap
  /\ enemy = Store0
  /\ entityTimings = EmptyMap
  /\ triggered = [id \in EntityIds |-> None]
  /\ ratioAtLastEvent = EmptyMap
  /\ caller = Caller0
  /\ handlers = <<>>
  /\ eventHistory = <<>>
  /\ invoked = <<>>

\* The clock of the host advances
Tick ==
  /\ ticks < MaxTicks
  /\ \E d \in Deltas : now' = now + d
  /\ ticks' = ticks + 1
  /\ out' = [Out0 EXCEPT !.op = "tick"]
  /\ UNCHANGED <<baseStats, effects, effectTimings, statsCache, effectCache,
                 lastCalculationTime, valueProviders, equippedGear, hist,
                   direct, boundVars, extVars>>

\* Entity.getCurrentStats()
GetCurrentStats ==
  \E r \in {getCurrentStats(effects, baseStats, statsCache, effectCache, now)} :
      /\ statsCache' = r.statsCache
      /\ effectCache' = r.effectCache
      /\ out' = [Out0 EXCEPT !.op = "getCurrentStats", !.stats = r.stats,
                             !.applied = r.applied, !.passes = r.passes]
      /\ hist' = [hist EXCEPT !.computed = Computed(r),
                              !.lastCall = Some([at |-> now, stats |-> r.stats])]
      /\ UNCHANGED <<now, ticks, baseStats, effects, effectTimings,
                     lastCalculationTime, valueProviders, equippedGear,
                   direct, boundVars, extVars>>

\* Entity.addEffect(effect, duration?) with an effect of pool and a duration
\* of durations (None: the argument is omitted)
AddEffect(pool, durations) ==
  \E e \in pool, d \in durations :
    /\ HasId(effects, e.id) \/ Len(effects) < MaxEffects
    /\ LET S == addEffect(Store, e, d, now)
       IN  /\ Commit(S)
           /\ out' = [Out0 EXCEPT !.op = "addEffect", !.ids = <<e.id>>,
                                  !.events = S.events]
    /\ hist' = Mutated("addEffect")
    /\ UNCHANGED <<now, ticks, baseStats, valueProviders, equippedGear,
                   direct, boundVars, extVars>>

\* Entity.removeEffect(effectId)
RemoveEffect ==
  \E id \in EffectIds :
    /\ LET S == removeEffect(Store, id, now)
       IN  /\ Commit(S)
           /\ out' = [Out0 EXCEPT !.op = "removeEffect", !.ids = <<id>>,
                                  !.ok = HasId(effects, id),
                                  !.events = S.events]
    /\ hist' = IF HasId(effects, id) THEN Mutated("removeEffect") ELSE hist
    /\ UNCHANGED <<now, ticks, baseStats, valueProviders, equippedGear,
                   direct, boundVars, extVars>>

\* Entity.checkExpiredEffects(currentTime)
CheckExpiredEffects ==
  \E currentTime \in CheckTimes :
    /\ LET expired == expiredEffects(effectTimings, currentTime)
           S == RemoveEach(Store, expired, now)
       IN  /\ Commit(S)
           /\ out' = [Out0 EXCEPT !.op = "checkExpiredEffects",
                                  !.ids = expired,
                                  !.value = Some(currentTime),
                                  !.events = S.events]
           /\ hist' = IF S.events # <<>> THEN Mutated("removeEffect") ELSE hist
    /\ UNCHANGED <<now, ticks, baseStats, valueProviders, equippedGear,
                   direct, boundVars, extVars>>

\* Entity.setBaseStat(statType, value)
SetBaseStat ==
  \E statType \in StatTypes, value \in StatValues :
    /\ baseStats' = Put(baseStats, statType, value)
    /\ Commit(invalidateCache(Store, now))
    /\ out' = [Out0 EXCEPT !.op = "setBaseStat",
                           !.events = <<Event("stat_changed", statType, <<value>>)>>]
    /\ hist' = Mutated("setBaseStat")
    /\ UNCHANGED <<now, ticks, valueProviders, equippedGear,
                   direct, boundVars, extVars>>

\* Entity.setStat(statType, value) with a value of values: the base stat is
\* set, the stats cache alone is cleared, the event is emitted
\* (previousValue is read after the assignment), and checkAndEmitBoundEvents
\* calls getCurrentStats
SetStat(values) ==
  \E statType \in StatTypes, value \in values :
    \E base \in {Put(baseStats, statType, value)} :
    \E r \in {getCurrentStats(effects, base, EmptyMap, effectCache, now)} :
    \E B \in {checkAndEmitBoundEvents(BoundState, boundEventConfigs, r.stats)} :
        /\ baseStats' = base
        /\ statsCache' = r.statsCache
        /\ effectCache' = r.effectCache
        /\ previousBoundStates' = B.previousBoundStates
        /\ previousBoundRatios' = B.previousBoundRatios
        /\ ratioAtLastEvent' = RatioHistory(ratioAtLastEvent, B)
        /\ out' = [Out0 EXCEPT !.op = "setStat", !.applied = r.applied,
                               !.passes = r.passes,
                               !.events = <<Event("stat_changed", statType,
                                                  <<value, base[statType]>>)>>
                                            \o B.events]
        /\ hist' = [Mutated("setStat") EXCEPT !.computed = Computed(r)]
        /\ UNCHANGED <<now, ticks, effects, effectTimings, lastCalculationTime,
                       valueProviders, equippedGear, direct, boundEventConfigs,
                       cooldownVars, eventVars, caller>>

\* StatBoundCalculator.calculateBounds(statType, config, stats) on a map of
\* the caller
CalculateBounds ==
  \E statType \in BoundStatTypes, config \in BoundConfigs, stats \in BoundStats :
    /\ out' = [Out0 EXCEPT !.op = "calculateBounds", !.ids = <<statType>>,
                           !.stats = stats,
                           !.value = Some(calculateBounds(statType, config, stats))]
    /\ UNCHANGED <<now, ticks, baseStats, effects, effectTimings, statsCache,
                   effectCache, lastCalculationTime, valueProviders,
                   equippedGear, hist, direct, boundVars, extVars>>

\* StatBoundCalculator.calculateRatio(result) on a result of calculateBounds
CalculateRatio ==
  \E statType \in StatTypes, config \in RatioConfigs, stats \in BoundStats :
    LET result == calculateBounds(statType, config, stats)
    IN  /\ out' = [Out0 EXCEPT !.op = "calculateRatio", !.ids = <<statType>>,
                               !.stats = stats,
                               !.value = Some([result |-> result,
                                               ratio |-> calculateRatio(result)])]
        /\ UNCHANGED <<now, ticks, baseStats, effects, effectTimings,
                       statsCache, effectCache, lastCalculationTime,
                       valueProviders, equippedGear, hist, direct, boundVars, extVars>>

\* StatBoundCalculator.getStateDescription(result, thresholdConfig) on a
\* result of calculateBounds
GetStateDescription ==
  \E statType \in StatTypes, config \in RatioConfigs, stats \in BoundStats,
     thresholdConfig \in ThresholdConfigs :
    LET result == calculateBounds(statType, config, stats)
    IN  /\ out' = [Out0 EXCEPT !.op = "getStateDescription",
                               !.ids = <<statType>>, !.stats = stats,
                               !.value =
                                 Some([result |-> result,
                                       thresholdConfig |-> thresholdConfig,
                                       state |-> getStateDescription(
                                                   result, thresholdConfig)])]
        /\ UNCHANGED <<now, ticks, baseStats, effects, effectTimings,
                       statsCache, effectCache, lastCalculationTime,
                       valueProviders, equippedGear, hist, direct, boundVars, extVars>>

\* Entity.calculateStatBounds(statType, config)
CalculateStatBounds ==
  \E statType \in StatTypes, config \in EntityBoundConfigs :
    \E c \in {calculateStatBounds(effects, baseStats, statsCache, effectCache,
                                   now, statType, config)} :
        /\ baseStats' = c.baseStats
        /\ statsCache' = c.statsCache
        /\ effectCache' = c.effectCache
        /\ out' = [Out0 EXCEPT !.op = "calculateStatBounds",
                               !.ids = <<statType>>, !.stats = c.stats,
                               !.value = Some(c.result),
                               !.applied = c.applied, !.passes = c.passes]
        /\ hist' = [hist EXCEPT !.computed = Computed(c)]
        /\ UNCHANGED <<now, ticks, effects, effectTimings, lastCalculationTime,
                       valueProviders, equippedGear, direct, boundVars, extVars>>

\* Entity.getStatBounds(statType, min, max, clampToBounds)
GetStatBounds ==
  \E statType \in StatTypes, min \in {0}, max \in {100},
     clampToBounds \in BOOLEAN :
    \E c \in {getStatBounds(effects, baseStats, statsCache, effectCache, now,
                             statType, min, max, clampToBounds)} :
        /\ baseStats' = c.baseStats
        /\ statsCache' = c.statsCache
        /\ effectCache' = c.effectCache
        /\ out' = [Out0 EXCEPT !.op = "getStatBounds",
                               !.ids = <<statType>>, !.stats = c.stats,
                               !.value = Some(c.result),
                               !.applied = c.applied, !.passes = c.passes]
        /\ hist' = [hist EXCEPT !.computed = Computed(c)]
        /\ UNCHANGED <<now, ticks, effects, effectTimings, lastCalculationTime,
                       valueProviders, equippedGear, direct, boundVars, extVars>>

\* Entity.registerBoundEventConfig(config) with a configuration of pool:
\* Map.set keyed by the stat type
RegisterBoundEventConfig(pool) ==
  \E config \in pool :
    /\ boundEventConfigs' =
         IF \E i \in 1..Len(boundEventConfigs) :
              boundEventConfigs[i].statType = config.statType
           THEN [i \in 1..Len(boundEventConfigs) |->
                   IF boundEventConfigs[i].statType = config.statType
                     THEN config ELSE boundEventConfigs[i]]
           ELSE Append(boundEventConfigs, config)
    /\ out' = [Out0 EXCEPT !.op = "registerBoundEventConfig",
                           !.ids = <<config.statType>>]
    /\ UNCHANGED <<now, ticks, baseStats, effects, effectTimings, statsCache,
                   effectCache, lastCalculationTime, valueProviders,
                   equippedGear, hist, direct, previousBoundStates,
                   previousBoundRatios, extVars>>

\* Entity.unregisterBoundEventConfig(statType)
UnregisterBoundEventConfig ==
  \E statType \in BoundStatTypes :
    /\ boundEventConfigs' =
         SelectSeq(boundEventConfigs, LAMBDA c : c.statType # statType)
    /\ previousBoundStates' = Delete(previousBoundStates, statType)
    /\ previousBoundRatios' = Delete(previousBoundRatios, statType)
    /\ ratioAtLastEvent' = Delete(ratioAtLastEvent, statType)
    /\ out' = [Out0 EXCEPT !.op = "unregisterBoundEventConfig",
                           !.ids = <<statType>>]
    /\ UNCHANGED <<now, ticks, baseStats, effects, effectTimings, statsCache,
                   effectCache, lastCalculationTime, valueProviders,
                   equippedGear, hist, direct, cooldownVars, eventVars, caller>>

\* Entity.checkAndEmitBoundEvents()
CheckAndEmitBoundEvents ==
  \E r \in {getCurrentStats(effects, baseStats, statsCache, effectCache, now)} :
  \E B \in {checkAndEmitBoundEvents(BoundState, boundEventConfigs, r.stats)} :
      /\ statsCache' = r.statsCache
      /\ effectCache' = r.effectCache
      /\ previousBoundStates' = B.previousBoundStates
      /\ previousBoundRatios' = B.previousBoundRatios
      /\ ratioAtLastEvent' = RatioHistory(ratioAtLastEvent, B)
      /\ out' = [Out0 EXCEPT !.op = "checkAndEmitBoundEvents",
                             !.stats = r.stats, !.applied = r.applied,
                             !.passes = r.passes, !.events = B.events]
      /\ hist' = [hist EXCEPT !.computed = Computed(r)]
      /\ UNCHANGED <<now, ticks, baseStats, effects, effectTimings,
                     lastCalculationTime, valueProviders, equippedGear,
                     direct, boundEventConfigs, cooldownVars, eventVars, caller>>

\* Entity.requestValue(purpose): the context is built with
\* getCurrentStats(), which may fill both caches
RequestValue ==
  \E purpose \in Purposes :
    \E r \in {getCurrentStats(effects, baseStats, statsCache, effectCache, now)} :
    \E v \in {requestValue(equippedGear, valueProviders, effects, purpose)} :
        /\ statsCache' = r.statsCache
        /\ effectCache' = r.effectCache
        /\ out' = [Out0 EXCEPT !.op = "requestValue", !.ids = <<purpose>>,
                               !.value = v.value, !.consulted = v.consulted,
                               !.applied = r.applied, !.passes = r.passes]
        /\ hist' = [hist EXCEPT !.computed = Computed(r)]
        /\ UNCHANGED <<now, ticks, baseStats, effects, effectTimings,
                       lastCalculationTime, valueProviders, equippedGear,
                   direct, boundVars, extVars>>

\* Entity.registerValueProvider(provider)
RegisterValueProvider ==
  \E p \in ProviderPool :
    /\ HasId(valueProviders, p.id) \/ Len(valueProviders) < MaxProviders
    /\ valueProviders' = MapSet(valueProviders, p)
    /\ out' = [Out0 EXCEPT !.op = "registerValueProvider", !.ids = <<p.id>>,
                           !.events = <<Event("custom_event", p.id,
                                              <<"value_provider_registered">>)>>]
    /\ UNCHANGED <<now, ticks, baseStats, effects, effectTimings, statsCache,
                   effectCache, lastCalculationTime, equippedGear, hist,
                   direct, boundVars, extVars>>

\* Entity.unregisterValueProvider(providerId)
UnregisterValueProvider ==
  \E id \in {p.id : p \in ProviderPool} :
    /\ valueProviders' = MapDelete(valueProviders, id)
    /\ out' = [Out0 EXCEPT !.op = "unregisterValueProvider", !.ids = <<id>>,
                           !.ok = HasId(valueProviders, id),
                           !.events = IF HasId(valueProviders, id)
                                        THEN <<Event("custom_event", id,
                                                     <<"value_provider_unregistered">>)>>
                                        ELSE <<>>]
    /\ UNCHANGED <<now, ticks, baseStats, effects, effectTimings, statsCache,
                   effectCache, lastCalculationTime, equippedGear, hist,
                   direct, boundVars, extVars>>

\* Entity.equipGear(gear): the slot argument is omitted, so the slot is
\* gear.slot || 'default'; the entry's id is the slot, the key of the map
EquipGear ==
  \E gear \in GearPool :
    LET gearSlot == IF gear.slot # None THEN gear.slot[1] ELSE "default"
        S == AddEach(Store, gear.passiveEffects, now)
    IN  /\ Len(S.effects) <= MaxEffects
        /\ equippedGear' = MapSet(equippedGear, [id |-> gearSlot, gear |-> gear])
        /\ Commit(S)
        /\ out' = [Out0 EXCEPT !.op = "equipGear", !.ids = <<gear.id>>,
                               !.events = Append(S.events,
                                  Event("gear_equipped", gear.id,
                                        <<gearSlot, Len(gear.passiveEffects)>>))]
        /\ hist' = IF S.events # <<>> THEN Mutated("addEffect") ELSE hist
        /\ UNCHANGED <<now, ticks, baseStats, valueProviders,
                   direct, boundVars, extVars>>

\* Entity.unequipGear(slot)
UnequipGear ==
  \E slot \in {"weapon", "default"} :
    IF HasId(equippedGear, slot)
      THEN LET gear == Lookup(equippedGear, slot).gear
               S == RemoveEach(Store, Ids(gear.passiveEffects), now)
           IN  /\ equippedGear' = MapDelete(equippedGear, slot)
               /\ Commit(S)
               /\ out' = [Out0 EXCEPT !.op = "unequipGear", !.ids = <<gear.id>>,
                                      !.ok = TRUE,
                                      !.events = Append(S.events,
                                         Event("gear_unequipped", gear.id,
                                               <<slot, Len(gear.passiveEffects)>>))]
               /\ hist' = IF S.events # <<>> THEN Mutated("removeEffect") ELSE hist
               /\ UNCHANGED <<now, ticks, baseStats, valueProviders,
                   direct, boundVars, extVars>>
      ELSE /\ out' = [Out0 EXCEPT !.op = "unequipGear"]
           /\ UNCHANGED <<now, ticks, baseStats, effects, effectTimings,
                          statsCache, effectCache, lastCalculationTime,
                          valueProviders, equippedGear, hist,
                   direct, boundVars, extVars>>

\* A caller takes a stats map of its own
DirectStart ==
  \E v \in DirectValues, w \in DirectValues :
    /\ direct' = [stats |-> [s \in {"x", "y"} |-> IF s = "x" THEN v ELSE w],
                  before |-> EmptyMap, effect |-> None, pending |-> FALSE]
    /\ out' = [Out0 EXCEPT !.op = "start"]
    /\ UNCHANGED <<now, ticks, baseStats, effects, effectTimings, statsCache,
                   effectCache, lastCalculationTime, valueProviders,
                   equippedGear, hist, boundVars, extVars>>

\* The caller invokes effect.apply(context, stats) on its map, with a
\* context built from the map
DirectApply ==
  \E e \in DirectPool :
    /\ direct.stats # EmptyMap
    /\ ~direct.pending
    /\ direct' = [stats |-> apply(e, createEffectContext(direct.stats, baseStats,
                                                       effects), direct.stats),
                  before |-> direct.stats, effect |-> Some(e), pending |-> TRUE]
    /\ out' = [Out0 EXCEPT !.op = "apply", !.ids = <<e.id>>]
    /\ UNCHANGED <<now, ticks, baseStats, effects, effectTimings, statsCache,
                   effectCache, lastCalculationTime, valueProviders,
                   equippedGear, hist, boundVars, extVars>>

\* The caller invokes effect.reverse(context, stats) for the effect it
\* applied last, with a context built from the map
DirectReverse ==
  /\ direct.pending
  /\ LET e == direct.effect[1]
     IN  /\ direct' = [direct EXCEPT
                         !.stats = reverse(e, createEffectContext(direct.stats,
                                              baseStats, effects), direct.stats),
                         !.pending = FALSE]
         /\ out' = [Out0 EXCEPT !.op = "reverse", !.ids = <<e.id>>]
  /\ UNCHANGED <<now, ticks, baseStats, effects, effectTimings, statsCache,
                 effectCache, lastCalculationTime, valueProviders,
                 equippedGear, hist, boundVars, extVars>>

\* effect.canStackWith(otherEffect, statType), called on two effects of the
\* pool for a stat type they declare ("x") or do not declare ("y")
CanStackWith ==
  \E e \in StackPool, otherEffect \in StackPool, statType \in {"x", "y"} :
    /\ out' = [Out0 EXCEPT !.op = "canStackWith",
                           !.ids = <<e.id, otherEffect.id, statType>>,
                           !.ok = canStackWith(e, otherEffect, statType)]
    /\ UNCHANGED <<now, ticks, baseStats, effects, effectTimings, statsCache,
                   effectCache, lastCalculationTime, valueProviders,
                   equippedGear, hist,
                   direct, boundVars, extVars>>

\* An applicator whose conditions are met handles an event:
\* BaseEffectApplicator.addEffects(entity) with its effectsToAdd
ApplicatorAddEffects ==
  \E effectsToAdd \in EffectsToAdd :
    LET S == addEffects(Store, effectsToAdd, now)
    IN  /\ Len(S.effects) <= MaxEffects
        /\ Commit(S)
        /\ out' = [Out0 EXCEPT !.op = "addEffects", !.ids = Ids(effectsToAdd),
                               !.ok = (S.events # <<>>), !.events = S.events]
        /\ hist' = IF S.events # <<>> THEN Mutated("addEffect") ELSE hist
        /\ UNCHANGED <<now, ticks, baseStats, valueProviders, equippedGear,
                   direct, boundVars, extVars>>

\* BaseEffectApplicator.removeEffects(entity) with a one-element
\* effectsToRemove
ApplicatorRemoveEffects ==
  \E e \in StackPool :
    LET S == RemoveEach(Store, <<e.id>>, now)
    IN  /\ Commit(S)
        /\ out' = [Out0 EXCEPT !.op = "removeEffects", !.ids = <<e.id>>,
                               !.ok = (S.events # <<>>), !.events = S.events]
        /\ hist' = IF S.events # <<>> THEN Mutated("removeEffect") ELSE hist
        /\ UNCHANGED <<now, ticks, baseStats, valueProviders, equippedGear,
                   direct, boundVars, extVars>>

\* const stats = entity.getCurrentStats(), kept by the caller
KeepCurrentStats ==
  \E r \in {getCurrentStats(effects, baseStats, statsCache, effectCache, now)} :
  \E key \in {getCacheKey(effects)} :
      /\ statsCache' = r.statsCache
      /\ effectCache' = r.effectCache
      /\ caller' = [caller EXCEPT
                      !.stats = r.stats,
                      !.statsIs = IF r.passes = 0 THEN cachedStatsReturned
                                  ELSE calculatedStatsReturned,
                      !.statsFrom = IF r.passes = 0 THEN "hit" ELSE "miss",
                      !.statsKey = key,
                      !.statsAt = r.statsCache[key].timestamp]
      /\ out' = [Out0 EXCEPT !.op = "keepCurrentStats", !.stats = r.stats,
                             !.applied = r.applied, !.passes = r.passes]
      /\ hist' = [hist EXCEPT !.computed = Computed(r),
                              !.lastCall = Some([at |-> now, stats |-> r.stats])]
      /\ UNCHANGED <<now, ticks, baseStats, effects, effectTimings,
                     lastCalculationTime, valueProviders, equippedGear,
                     direct, boundVars, cooldownVars, ratioAtLastEvent, eventVars>>

\* const base = entity.baseStats, kept by the caller
KeepBaseStats ==
  /\ caller' = [caller EXCEPT !.base = baseStats, !.baseIs = baseStatsGetter]
  /\ out' = [Out0 EXCEPT !.op = "keepBaseStats", !.stats = baseStats]
  /\ UNCHANGED <<now, ticks, baseStats, effects, effectTimings, statsCache,
                 effectCache, lastCalculationTime, valueProviders, equippedGear,
                 hist, direct, boundVars, cooldownVars, ratioAtLastEvent, eventVars>>

\* The caller writes into an object it holds: given.x = v, base.x = v or
\* stats.set("x", v).  A shared object changes for the entity too.
MutateKept ==
  \E target \in {"given", "base", "stats"}, v \in CallerValues :
    /\ target = "base" => caller.baseIs # "none"
    /\ target = "stats" => caller.statsIs # "none"
    /\ caller' = CASE target = "given" ->
                       [caller EXCEPT !.given = Put(caller.given, "x", v)]
                  [] target = "base" ->
                       [caller EXCEPT !.base = Put(caller.base, "x", v)]
                  [] target = "stats" ->
                       [caller EXCEPT !.stats = Put(caller.stats, "x", v)]
    /\ baseStats' = IF \/ target = "given" /\ caller.givenIs = "shared"
                       \/ target = "base" /\ caller.baseIs = "shared"
                      THEN Put(baseStats, "x", v) ELSE baseStats
    /\ statsCache' = IF target = "stats" /\ HoldsCachedMap(caller, statsCache)
                       THEN [statsCache EXCEPT ![caller.statsKey].stats =
                                                 Put(caller.stats, "x", v)]
                       ELSE statsCache
    /\ out' = [Out0 EXCEPT !.op = "mutateKept", !.ids = <<target>>]
    /\ UNCHANGED <<now, ticks, effects, effectTimings, effectCache,
                   lastCalculationTime, valueProviders, equippedGear,
                   hist, direct, boundVars, cooldownVars, ratioAtLastEvent, eventVars>>

\* effectApplicatorManager.handleEventForEntity(event, entity) with the
\* cooldown applicator registered: its handleEventWithEntity
CooldownHandleEvent ==
  \E event \in TriggerEvents, entityId \in EntityIds :
    \E r \in {handleEventWithEntity(IF entityId = "player" THEN Store ELSE enemy,
                                     IF entityId = "player" THEN baseStats
                                     ELSE EnemyBaseStats,
                                     entityTimings, event, entityId, now)} :
        /\ IF entityId = "player"
             THEN /\ Commit(r.S)
                  /\ hist' = IF r.added THEN Mutated("addEffect") ELSE hist
                  /\ UNCHANGED enemy
             ELSE /\ enemy' = [r.S EXCEPT !.events = <<>>]
                  /\ UNCHANGED <<effects, effectTimings, statsCache, effectCache,
                                 lastCalculationTime, hist>>
        /\ entityTimings' = r.T
        /\ triggered' = IF r.added THEN [triggered EXCEPT ![entityId] = Some(now)]
                        ELSE triggered
        /\ out' = [Out0 EXCEPT !.op = "handleEvent", !.ids = <<entityId>>,
                               !.value = Some(event.key),
                               !.ok = r.added, !.events = r.S.events]
        /\ UNCHANGED <<now, ticks, baseStats, valueProviders, equippedGear,
                       direct, boundVars, ratioAtLastEvent, eventVars, caller>>

\* CooldownEffectApplicator.checkExpiredEffects(entityId, Date.now())
CooldownCheckExpired ==
  \E entityId \in EntityIds :
    /\ entityTimings' = checkExpiredCooldowns(entityTimings, entityId, now)
    /\ out' = [Out0 EXCEPT !.op = "checkExpiredCooldowns", !.ids = <<entityId>>,
                           !.ok = (entityTimings' # entityTimings)]
    /\ UNCHANGED <<now, ticks, baseStats, effects, effectTimings, statsCache,
                   effectCache, lastCalculationTime, valueProviders, equippedGear,
                   hist, direct, boundVars, enemy, triggered, ratioAtLastEvent,
                   eventVars, caller>>

\* eventSystem.on(type, handler) with a handler of the pool, for each of
\* its event types
On ==
  \E h \in HandlerPool :
    /\ h \notin Range(handlers)
    /\ Len(handlers) < MaxHandlers
    /\ handlers' = Append(handlers, h)
    /\ out' = [Out0 EXCEPT !.op = "on", !.ids = <<h.id>>]
    /\ UNCHANGED <<now, ticks, baseStats, effects, effectTimings, statsCache,
                   effectCache, lastCalculationTime, valueProviders, equippedGear,
                   hist, direct, boundVars, cooldownVars, ratioAtLastEvent,
                   eventHistory, invoked, caller>>

\* eventSystem.off(type, handler), for each of the handler's event types
Off ==
  \E h \in Range(handlers) :
    /\ handlers' = SelectSeq(handlers, LAMBDA g : g # h)
    /\ out' = [Out0 EXCEPT !.op = "off", !.ids = <<h.id>>]
    /\ UNCHANGED <<now, ticks, baseStats, effects, effectTimings, statsCache,
                   effectCache, lastCalculationTime, valueProviders, equippedGear,
                   hist, direct, boundVars, cooldownVars, ratioAtLastEvent,
                   eventHistory, invoked, caller>>

\* An operation of the entity with handlers subscribed: the entity and the
\* event system after it; ok says that it returned without an exception
Handled(op, key, W) ==
  /\ CommitWorld(W)
  /\ out' = [Out0 EXCEPT !.op = op, !.ids = <<key>>, !.ok = ~W.thrown,
                         !.events = W.events]
  /\ hist' = Mutated(op)
  /\ UNCHANGED <<now, ticks, valueProviders, equippedGear, direct, cooldownVars,
                 handlers, caller>>

\* Entity.setStat(statType, value) while handlers listen
HandledSetStat(values) ==
  \E statType \in StatTypes, value \in values :
    Handled("setStat", statType, setStat(World, statType, value, now))

\* Entity.addEffect(effect) while handlers listen
HandledAddEffect(pool) ==
  \E e \in pool :
    /\ HasId(effects, e.id) \/ Len(effects) < MaxEffects
    /\ Handled("addEffect", e.id, emitLast(addEffect(World, e, None, now), now))

\* Entity.removeEffect(effectId) while handlers listen
HandledRemoveEffect ==
  \E id \in IdSet(effects) :
    Handled("removeEffect", id, emitLast(removeEffect(World, id, now), now))

----------------------------------------------------------------------------
(* Specifications *)

\* The stat store at one instant: every effect of the pool, base stats
Next ==
  \/ AddEffect(StorePool, {None})
  \/ RemoveEffect
  \/ SetBaseStat
  \/ SetStat(StatValues)
  \/ GetCurrentStats

Spec == Init /\ [][Next]_vars

\* The stat store and its caches while the clock advances
NextCache ==
  \/ Tick
  \/ AddEffect(CachePool, {None})
  \/ RemoveEffect
  \/ SetBaseStat
  \/ SetStat(StatValues)
  \/ GetCurrentStats

SpecCache == Init /\ [][NextCache]_vars

\* Effect expiry: effects with and without duration, polled by the caller
NextExpiry ==
  \/ Tick
  \/ AddEffect(SetValueEffects \cup AdditiveEffects, Durations)
  \/ RemoveEffect
  \/ CheckExpiredEffects
  \/ GetCurrentStats

SpecExpiry == Init /\ [][NextExpiry]_vars

\* The value resolver: gear, value providers and active effects
NextResolve ==
  \/ AddEffect(ActiveEffects, {None})
  \/ RemoveEffect
  \/ RegisterValueProvider
  \/ UnregisterValueProvider
  \/ EquipGear
  \/ UnequipGear
  \/ RequestValue

SpecResolve == Init /\ [][NextResolve]_vars

\* Arithmetic effects attached to the entity
NextArith ==
  \/ AddEffect(ArithPool, {None})
  \/ SetBaseStat
  \/ GetCurrentStats

SpecArith == Init /\ [][NextArith]_vars

\* A caller applying and reversing additive effects on a map of its own
NextDirect ==
  \/ DirectStart
  \/ DirectApply
  \/ DirectReverse

SpecDirect == Init /\ [][NextDirect]_vars

\* Stackability: effects attached through applicators only
NextStack ==
  \/ ApplicatorAddEffects
  \/ ApplicatorRemoveEffects
  \/ CanStackWith
  \/ GetCurrentStats

SpecStack == Init /\ [][NextStack]_vars

\* The bound calculator on maps of the caller
NextCalc ==
  \/ CalculateBounds

SpecCalc == Init /\ [][NextCalc]_vars

\* The ratio and the state of a bound result
NextRatio ==
  \/ CalculateRatio
  \/ GetStateDescription

SpecRatio == Init /\ [][NextRatio]_vars

\* Bound events: subscriptions registered with an entity whose stat is set
NextEvents ==
  \/ SetStat(EventValues)
  \/ RegisterBoundEventConfig(SubscriptionPool)
  \/ UnregisterBoundEventConfig
  \/ CheckAndEmitBoundEvents

SpecEvents == Init /\ [][NextEvents]_vars

\* Effects with a short duration on an entity that is used while they
\* expire
NextPoll ==
  \/ Tick
  \/ AddEffect(PollPool, PollDurations)
  \/ RemoveEffect
  \/ CheckExpiredEffects
  \/ GetCurrentStats
  \/ RequestValue

SpecPoll == Init /\ [][NextPoll]_vars

\* Wrapper effects attached to the entity
NextWrap ==
  \/ AddEffect(WrapPool, {None})
  \/ SetBaseStat
  \/ GetCurrentStats

SpecWrap == Init /\ [][NextWrap]_vars

\* The cooldown applicator serving two entities while the clock advances
NextCooldown ==
  \/ Tick
  \/ CooldownHandleEvent
  \/ CooldownCheckExpired
  \/ RemoveEffect
  \/ CheckExpiredEffects

SpecCooldown == Init /\ [][NextCooldown]_vars

\* A caller that keeps and changes the objects the entity hands out
NextCopies ==
  \/ Tick
  \/ AddEffect(AdditiveEffects, {None})
  \/ SetBaseStat
  \/ KeepCurrentStats
  \/ KeepBaseStats
  \/ MutateKept

SpecCopies == Init /\ [][NextCopies]_vars

\* The values of x set while handlers listen, and the one subscription
HandledValues == {0, 50}

HandledSubscriptions == {BoundEventConfig("x", createSimpleBoundConfig(0, 100, FALSE))}

\* The entity with handlers subscribed to its events
NextHandlers ==
  \/ On
  \/ Off
  \/ RegisterBoundEventConfig(HandledSubscriptions)
  \/ HandledSetStat(HandledValues)
  \/ HandledAddEffect({e \in AdditiveEffects : e.priority = 1})
  \/ HandledRemoveEffect

SpecHandlers == Init /\ [][NextHandlers]_vars

\* Stat bounds and bound events of an entity while the clock advances
NextBounds ==
  \/ Tick
  \/ AddEffect(BoundsPool, {None})
  \/ SetStat(StatValues)
  \/ RegisterBoundEventConfig(BoundEventConfigs)
  \/ UnregisterBoundEventConfig
  \/ CalculateStatBounds
  \/ GetStatBounds
  \/ CheckAndEmitBoundEvents

SpecBounds == Init /\ [][NextBounds]_vars

----------------------------------------------------------------------------
(* Properties of the stat store (Spec) *)

\* The context calculateStats builds for a pass on the current state
PassContext == createEffectContext(baseStats, baseStats, effects)

\* The entity has base x = 0 and exactly SetValueEffect(x, 50) with priority
\* ps and AdditiveEffect(x, +10) with priority pa attached, in any insertion
\* order
SetAndAdd(ps, pa) ==
  /\ baseStats = [s \in {"x"} |-> 0]
  /\ getCacheKey(effects) = {"set", "add"}
  /\ Lookup(effects, "set").priority = ps
  /\ Lookup(effects, "add").priority = pa

\* C1 (as amended): getCurrentStats applies the attached effects in
\* ascending priority order.  With base x = 0, SetValueEffect(x, 50) at
\* priority 1 and AdditiveEffect(x, +10) at priority 2 yield x = 60; with the
\* priorities swapped the additive effect runs first and the set effect
\* overwrites its result, so x = 50; in both cases whatever the order in
\* which the two effects were added.
C1_PriorityOrder ==
  out.op = "getCurrentStats"
  => /\ SetAndAdd(1, 2) => /\ out.stats = [s \in {"x"} |-> 60]
                            /\ (out.passes = 1 => out.applied = <<"set", "add">>)
     /\ SetAndAdd(2, 1) => /\ out.stats = [s \in {"x"} |-> 50]
                            /\ (out.passes = 1 => out.applied = <<"add", "set">>)

\* C1 (as claimed): as above, but with the priorities swapped the result
\* is x = 10.
C1_AsClaimed ==
  out.op = "getCurrentStats"
  => /\ SetAndAdd(1, 2) => out.stats = [s \in {"x"} |-> 60]
     /\ SetAndAdd(2, 1) => out.stats = [s \in {"x"} |-> 10]

\* C1 witness: the additive effect was added first, the set effect second
\* with the lower priority number, and getCurrentStats returned x = 60
C1_Witness ==
  /\ out.op = "getCurrentStats"
  /\ baseStats = [s \in {"x"} |-> 0]
  /\ Ids(effects) = <<"add", "set">>
  /\ effects[1].priority = 2 /\ effects[2].priority = 1
  /\ out.stats = [s \in {"x"} |-> 60]
  /\ out.applied = <<"set", "add">>

\* C9: removeEffect(id) returns true exactly when an effect with that id was
\* attached; then that effect and its timing are detached and nothing else,
\* both caches are empty and one effect-removed event is emitted.  Otherwise
\* it returns false, emits nothing and leaves effects, timings and caches
\* unchanged.
C9_RemoveEffect ==
  [][out'.op = "removeEffect" =>
       LET id == out'.ids[1]
       IN  IF HasId(effects, id)
             THEN /\ out'.ok
                  /\ ~HasId(effects', id) /\ ~HasId(effectTimings', id)
                  /\ Range(effects') = Range(effects) \ {Lookup(effects, id)}
                  /\ Range(effectTimings') =
                       Range(effectTimings) \ {Lookup(effectTimings, id)}
                  /\ statsCache' = EmptyMap /\ effectCache' = EmptyMap
                  /\ out'.events = <<Event("effect_removed", id, None)>>
             ELSE /\ ~out'.ok
                  /\ out'.events = <<>>
                  /\ UNCHANGED <<effects, effectTimings, statsCache, effectCache>>
    ]_vars

\* C9 witness: one of two attached effects has just been removed
C9_Witness ==
  /\ out.op = "removeEffect" /\ out.ok
  /\ Len(effects) = 1 /\ Len(effectTimings) = 1
  /\ out.ids[1] \notin getCacheKey(effects)
  /\ out.events # <<>>

\* C10 (as claimed): in a calculation pass of getCurrentStats an attached
\* effect whose isActive is false on the entity's state has no apply call
\* and is not among the effects that were sorted by priority (the effectIds
\* recorded with the cached result).
C10_InactiveExcluded ==
  (out.op = "getCurrentStats" /\ out.passes = 1)
  => \A i \in 1..Len(effects) :
       ~isActive(effects[i], PassContext)
       => /\ effects[i].id \notin Range(out.applied)
          /\ effects[i].id \notin Range(statsCache[getCacheKey(effects)].effectIds)

----------------------------------------------------------------------------
(* Properties of the caches (SpecCache) *)

\* What a computation started with empty caches returns on the current
\* base stats and effects
FreshStats == calculateStats(effects, baseStats, EmptyMap, EmptyMap, now).stats

\* C5 (as amended): a getCurrentStats call less than 1000 ms after the
\* computation that filled the stats cache, with no mutation since that
\* computation, returns a map equal to its result and runs no effect's
\* apply; a call 1000 ms or more after that computation, or after a
\* mutation, recomputes from base stats and effects.
C5_CacheFreshness ==
  [][out'.op = "getCurrentStats" =>
       IF hist.computed # None /\ now - hist.computed[1].at < MaxAge
         THEN /\ out'.passes = 0
              /\ out'.applied = <<>>
              /\ out'.stats = hist.computed[1].stats
         ELSE /\ out'.passes = 1
              /\ out'.stats = FreshStats
              /\ out'.applied =
                   Ids(SelectSeq(getSortedActiveEffects(effects, baseStats, EmptyMap, now),
                                 LAMBDA e : isActive(e, PassContext)))
    ]_vars

\* C5 (as claimed): a getCurrentStats call less than 1000 ms after the
\* previous getCurrentStats call, with no mutation in between, returns equal
\* content and runs no effect's apply; a call 1000 ms or more after the
\* cached computation recomputes.
C5_AsClaimed ==
  [][out'.op = "getCurrentStats" =>
       /\ (hist.lastCall # None /\ now - hist.lastCall[1].at < MaxAge)
          => (out'.stats = hist.lastCall[1].stats /\ out'.applied = <<>>)
       /\ (hist.computed # None /\ now - hist.computed[1].at >= MaxAge)
          => out'.passes = 1
    ]_vars

\* C5 witness: with the additive effect attached, a call 999 ms after the
\* cached computation returned the cached x = 10 without any apply
C5_Witness ==
  /\ out.op = "getCurrentStats"
  /\ HasId(effects, "add")
  /\ hist.computed # None /\ now - hist.computed[1].at = MaxAge - 1
  /\ out.passes = 0 /\ out.applied = <<>>
  /\ out.stats = hist.computed[1].stats

\* C6: when the last mutation was an addEffect, removeEffect or setBaseStat,
\* getCurrentStats returns what a computation with empty caches returns on
\* the current base stats and effects, at any elapsed time, and the two
\* caches hold no entry older than that mutation.
C6_FreshAfterMutation ==
  hist.mutation \in {"addEffect", "removeEffect", "setBaseStat"}
  => /\ out.op = "getCurrentStats" => out.stats = FreshStats
     /\ \A k \in DOMAIN statsCache : statsCache[k].timestamp >= lastCalculationTime
     /\ \A id \in DOMAIN effectCache : effectCache[id].timestamp >= lastCalculationTime

\* C6 witness: after setBaseStat made the base-stat condition of the
\* attached conditional effect true, getCurrentStats applied that effect
C6_Witness ==
  /\ out.op = "getCurrentStats"
  /\ hist.mutation = "setBaseStat"
  /\ HasId(effects, "cond")
  /\ "cond" \in Range(out.applied)
  /\ out.stats = [s \in {"x"} |-> 105]

----------------------------------------------------------------------------
(* Properties of effect expiry (SpecExpiry) *)

\* C7: checkExpiredEffects(t) returns the ids of exactly the attached
\* effects whose recorded expiresAt is <= t and removes exactly those;
\* effects with a later expiresAt or without one stay attached, unchanged.
C7_CheckExpired ==
  [][out'.op = "checkExpiredEffects" =>
       LET t == out'.value[1]
           due == {tm.id : tm \in {x \in Range(effectTimings) :
                                     x.expiresAt # None /\ x.expiresAt[1] <= t}}
       IN  /\ Range(out'.ids) = due
           /\ Len(out'.ids) = Cardinality(due)
           /\ Range(effects') = {e \in Range(effects) : e.id \notin due}
           /\ Range(effectTimings') = {tm \in Range(effectTimings) : tm.id \notin due}
    ]_vars

\* C7 witness: an effect added at the initial time for 5000 ms was left
\* attached by an earlier check and has now been removed by a check at
\* initial time + 5001, while another effect stays attached
C7_Witness ==
  /\ out.op = "checkExpiredEffects"
  /\ out.value = Some(InitialTime + 5001)
  /\ out.ids = <<"set">>
  /\ Ids(effects) = <<"add">>
  /\ out.events = <<Event("effect_removed", "set", None)>>

\* C8 (as claimed): every recorded timing of an addEffect call with a
\* duration d, 0 included, has expiresAt = appliedAt + d, and only a call
\* without duration records no expiresAt.
C8_ExpiresAtRecorded ==
  \A i \in 1..Len(effectTimings) :
    LET tm == effectTimings[i]
    IN  IF tm.duration # None
          THEN tm.expiresAt = Some(tm.appliedAt + tm.duration[1])
          ELSE tm.expiresAt = None

----------------------------------------------------------------------------
(* Properties of the value resolver (SpecResolve) *)

\* The candidates a request for purpose may consult, read off the entity:
\* id, priority and what provideValue returns
Eligible(purpose) ==
  {[id |-> en.gear.id, priority |-> en.gear.priority, value |-> en.gear.provides] :
     en \in {x \in Range(equippedGear) :
               purpose \in x.gear.purposes /\ x.gear.isEquipped}}
  \cup
  {[id |-> p.id, priority |-> p.priority, value |-> p.provides] :
     p \in {x \in Range(valueProviders) : purpose \in x.purposes /\ x.isActive}}
  \cup
  {[id |-> e.id, priority |-> e.priority, value |-> e.provides] :
     e \in {x \in Range(effects) :
              x.isActiveEffect /\ purpose \in x.purposes /\ x.purposeGate # "false"}}

CandidateOf(purpose, id) == CHOOSE c \in Eligible(purpose) : c.id = id

\* C2: requestValue consults eligible candidates in descending priority
\* order and returns the value and id of the first one that answers: the
\* winner is the last one consulted, every candidate consulted before it
\* returned undefined, every eligible candidate of higher priority was
\* consulted, and no candidate of lower priority was.
C2_ShortCircuit ==
  out.op = "requestValue"
  => LET purpose == out.ids[1]
         n == Len(out.consulted)
     IN  /\ Range(out.consulted) \subseteq {c.id : c \in Eligible(purpose)}
         /\ \A i, j \in 1..n :
              i < j => CandidateOf(purpose, out.consulted[i]).priority
                         >= CandidateOf(purpose, out.consulted[j]).priority
         /\ out.value # None
            => /\ n > 0
               /\ out.value[1].provider = out.consulted[n]
               /\ CandidateOf(purpose, out.consulted[n]).value = Some(out.value[1].value)
               /\ \A i \in 1..(n - 1) :
                    CandidateOf(purpose, out.consulted[i]).value = None
               /\ \A c \in Eligible(purpose) :
                    /\ c.priority > CandidateOf(purpose, out.consulted[n]).priority
                       => c.id \in Range(out.consulted)
                    /\ c.priority < CandidateOf(purpose, out.consulted[n]).priority
                       => c.id \notin Range(out.consulted)

\* C2 witness: with the priority-10 gear returning 5 and the priority-5
\* provider returning 100, the result is 5 from the gear and the provider
\* was not consulted
C2_Witness ==
  /\ out.op = "requestValue" /\ out.ids = <<"damage">>
  /\ HasId(valueProviders, "low")
  /\ out.value = Some([value |-> 5, provider |-> "sword"])
  /\ "low" \notin Range(out.consulted)

\* C3: requestValue returns undefined exactly when no eligible candidate
\* returns a defined value; a candidate returning 0 answers like any other.
C3_AbsentIffNoAnswer ==
  out.op = "requestValue"
  => LET purpose == out.ids[1]
     IN  /\ out.value = None <=> (\A c \in Eligible(purpose) : c.value = None)
         /\ out.value # None
            => \E c \in Eligible(purpose) :
                 c.id = out.value[1].provider /\ c.value = Some(out.value[1].value)

\* C3 witness: the provider that returns 0 won the request
C3_Witness ==
  /\ out.op = "requestValue"
  /\ out.value = Some([value |-> 0, provider |-> "zero"])

\* C4: provideValue is invoked only on equipped gear with canHandlePurpose
\* and isEquipped, registered providers with canHandlePurpose and isActive,
\* and attached effects with the purpose among supportedPurposes whose
\* isActiveForPurpose does not return false; the three kinds are ranked
\* together: a consulted candidate is preceded by every eligible candidate
\* of strictly higher priority, of whatever kind.
C4_SharedRanking ==
  out.op = "requestValue"
  => LET purpose == out.ids[1]
         n == Len(out.consulted)
         Before(id) == {out.consulted[i] :
                          i \in {k \in 1..n : \E j \in 1..n : k < j /\ out.consulted[j] = id}}
     IN  /\ \A i \in 1..n :
              LET id == out.consulted[i]
              IN  \/ \E en \in Range(equippedGear) :
                       en.gear.id = id /\ purpose \in en.gear.purposes /\ en.gear.isEquipped
                  \/ \E p \in Range(valueProviders) :
                       p.id = id /\ purpose \in p.purposes /\ p.isActive
                  \/ \E e \in Range(effects) :
                       /\ e.id = id /\ e.isActiveEffect
                       /\ purpose \in e.purposes /\ e.purposeGate # "false"
         /\ \A i \in 1..n : \A c \in Eligible(purpose) :
              c.priority > CandidateOf(purpose, out.consulted[i]).priority
              => c.id \in Before(out.consulted[i])

\* C4 witness: a provider, an active effect and a gear were consulted in
\* one request, in the order of their priorities 15, 12, 10
C4_Witness ==
  /\ out.op = "requestValue"
  /\ out.consulted = <<"mute", "silent", "sword">>
  /\ out.value = Some([value |-> 5, provider |-> "sword"])

----------------------------------------------------------------------------
(* Properties of conditional effects and of the pass context (Spec) *)

\* C11: an effect whose applicability is a comparison on a stat has its body
\* applied by getCurrentStats exactly when the entity's value of that stat
\* satisfies the comparison.  Stated for a threshold effect attached alone,
\* where the entity's value of the stat is its base value: with base x = 100
\* the effect "x > 50" is applied.
C11_ThresholdApplied ==
  (/\ out.op = "getCurrentStats"
   /\ out.passes = 1
   /\ Len(effects) = 1
   /\ effects[1].kind = "StatThreshold")
  => LET e == effects[1]
     IN  (e.id \in Range(out.applied))
           <=> Compare(e.op, Get(baseStats, e.condStat), e.threshold)

\* The working map of a pass after the attached effect id has been applied
\* to the base stats
AfterFirst(id) == apply(Lookup(effects, id), PassContext, baseStats)

\* C12: within one pass context.currentStats is the working copy: an effect
\* applied after another one has changed a stat reads the changed value.
\* Stated for SetValueEffect(x, 50) followed by the threshold effect
\* "x < 50": the threshold effect is applied exactly when the value the set
\* effect left (50) is below 50.
C12_WorkingCopyRead ==
  (/\ out.op = "getCurrentStats"
   /\ out.passes = 1
   /\ getCacheKey(effects) = {"set", "thr"})
  => (("thr" \in Range(out.applied))
        <=> isApplicable(Lookup(effects, "thr"),
                         createEffectContext(AfterFirst("set"), baseStats, effects)))
----------------------------------------------------------------------------
(* Properties of stackability (SpecStack, Spec) *)

\* The effect of the pool with the given id
PoolEffect(id) == CHOOSE e \in StackPool : e.id = id

\* The effect declares a rule for the stat type with the given stackable flag
Declares(e, statType, stackable) ==
  \E i \in 1..Len(e.stackabilityRules) :
    /\ e.stackabilityRules[i].statType = statType
    /\ e.stackabilityRules[i].stackable = stackable

HasRule(e, statType) == Declares(e, statType, TRUE) \/ Declares(e, statType, FALSE)

\* C13 (as amended): canStackWith(other, statType) returns true when either
\* effect has no rule for the stat type, and otherwise exactly when both
\* rules declare stackable = true; it returns false when exactly one of the
\* two declares stackable = false and the other declares stackable = true.
C13_CanStackWith ==
  out.op = "canStackWith" =>
    LET e == PoolEffect(out.ids[1])
        otherEffect == PoolEffect(out.ids[2])
        statType == out.ids[3]
    IN  /\ (~HasRule(e, statType) \/ ~HasRule(otherEffect, statType)) => out.ok
        /\ (HasRule(e, statType) /\ HasRule(otherEffect, statType)) =>
             (out.ok <=> (/\ Declares(e, statType, TRUE)
                          /\ Declares(otherEffect, statType, TRUE)))

\* C13 as claimed: canStackWith returns true unless both effects declare an
\* explicit non-stackable rule for the stat type.
C13_AsClaimed ==
  out.op = "canStackWith" =>
    LET e == PoolEffect(out.ids[1])
        otherEffect == PoolEffect(out.ids[2])
        statType == out.ids[3]
    IN  out.ok <=> ~(/\ Declares(e, statType, FALSE)
                     /\ Declares(otherEffect, statType, FALSE))

\* canStackWith was asked for a non-stackable and a stackable effect
C13_Witness ==
  /\ out.op = "canStackWith"
  /\ out.ids = <<"set", "add", "x">>
  /\ ~out.ok

\* C15: effects added only through applicators never leave attached two
\* effects that list the same stat type and cannot stack on it, and never
\* more effects listing a stat than the maxStackSize one of them declares.
C15_ApplicatorsKeepRules ==
  \A i \in 1..Len(effects) : \A statType \in Range(effects[i].statTypes) :
    /\ \A j \in 1..Len(effects) :
         (j # i /\ statType \in Range(effects[j].statTypes))
           => canStackWith(effects[i], effects[j], statType)
    /\ LET rule == FindRule(effects[i], statType)
       IN  (rule # None /\ rule[1].maxStackSize # None)
             => StackSize(effects, statType) <= rule[1].maxStackSize[1]
\* C14: Entity.addEffect performs no stackability check: it attaches the
\* given effect in every state and detaches no other one, also when an
\* attached effect declares a non-stackable rule for a stat type the new
\* effect modifies, and getCurrentStats then applies both effects.
C14_NoStackabilityCheck ==
  [][/\ out'.op = "addEffect" =>
          /\ HasId(effects', out'.ids[1])
          /\ HasId(effectTimings', out'.ids[1])
          /\ \A i \in 1..Len(effects) : HasId(effects', effects[i].id)
     /\ (/\ out'.op = "getCurrentStats"
         /\ out'.passes = 1
         /\ getCacheKey(effects') = {"set", "add"})
          => Range(out'.applied) = {"set", "add"}]_vars

\* An effect was attached next to an attached effect that cannot stack with it
C14_Witness ==
  /\ out.op = "addEffect"
  /\ Len(effects) = 2
  /\ effects[2].id = out.ids[1]
  /\ ~canStackWith(effects[1], effects[2], "x")
----------------------------------------------------------------------------
(* Properties of the arithmetic effects (SpecDirect, SpecArith) *)

C17_PercentageEffect ==
  (/\ out.op = "getCurrentStats"
   /\ out.passes = 1
   /\ Len(effects) = 1
   /\ effects[1].kind \in {"Percentage", "ComposedPercentage"})
  => out.stats["x"] = baseStats["x"] + baseStats["x"] * effects[1].value

\* The product of the factors of a list of multiplicative effects
RECURSIVE FactorProduct(_)
FactorProduct(effs) ==
  IF effs = <<>> THEN 1 ELSE effs[1].value * FactorProduct(Tail(effs))

\* C18: a factory multiplicative effect multiplies the value left by the
\* effects before it by its factor, like MultiplicativeEffect: on a non-zero
\* base v, multiplicative effects with factors f1 and f2 give v * f1 * f2.
C18_MultiplicativeEffect ==
  (/\ out.op = "getCurrentStats"
   /\ out.passes = 1
   /\ effects # <<>>
   /\ baseStats["x"] # 0
   /\ \A i \in 1..Len(effects) :
        effects[i].kind \in {"Multiplicative", "ComposedMultiplicative"})
  => out.stats["x"] = baseStats["x"] * FactorProduct(effects)

----------------------------------------------------------------------------
(* Properties of the stat bounds (SpecCalc, SpecBounds) *)

\* The bounds a configuration evaluates to on given stats, before any swap
EvaluatedMin(config, stats) ==
  IF config.min = None THEN 0 ELSE BoundValue(config.min[1], stats)

EvaluatedMax(config, stats) ==
  IF config.max = None THEN 100 ELSE BoundValue(config.max[1], stats)

\* C19: calculateBounds returns minBound <= maxBound: the evaluated min and
\* max, an unset min being 0 and an unset max 100, swapped when the min
\* exceeds the max; with clampToBounds the reported currentValue lies in
\* [minBound, maxBound] and isClamped is true exactly when it differs from
\* the stored value
C19_BoundsOrdered ==
  out.op = "calculateBounds" =>
    LET result == out.value[1]
        stored == Get(out.stats, out.ids[1])
        lo == EvaluatedMin(result.config, out.stats)
        hi == EvaluatedMax(result.config, out.stats)
    IN  /\ result.minBound <= result.maxBound
        /\ IF lo > hi
             THEN result.minBound = hi /\ result.maxBound = lo
             ELSE result.minBound = lo /\ result.maxBound = hi
        /\ result.config.clampToBounds =>
             /\ result.minBound <= result.currentValue
             /\ result.currentValue <= result.maxBound
             /\ result.isClamped <=> (result.currentValue # stored)

\* calculateBounds was given an unset min and a max below it, swapped the
\* two, and clamped the stored 30 to the upper bound 0
C19_Witness ==
  /\ out.op = "calculateBounds"
  /\ out.value[1].config = BoundConfig(None, Some(NumberBound(-10)), TRUE)
  /\ Get(out.stats, out.ids[1]) = 30
  /\ out.value[1].minBound = -10
  /\ out.value[1].maxBound = 0
  /\ out.value[1].currentValue = 0
  /\ out.value[1].isClamped

\* The times of a later getCurrentStats: at once, within the cache's
\* lifetime, and after it
LaterTimes == {now, now + 1, now + MaxAge - 1, now + MaxAge, now + MaxAge + 1}

BoundOps == {"calculateStatBounds", "getStatBounds", "checkAndEmitBoundEvents"}

\* C20: calculateStatBounds, getStatBounds and the bound-event check pass
\* change neither the entity's base stats, nor its attached effects, nor
\* the stats a later getCurrentStats returns
C20_BoundsReadOnly ==
  [][out'.op \in BoundOps =>
       /\ baseStats' = baseStats
       /\ effects' = effects
       /\ effectTimings' = effectTimings
       /\ \A t \in LaterTimes :
            getCurrentStats(effects', baseStats', statsCache', effectCache', t).stats
              = getCurrentStats(effects, baseStats, statsCache, effectCache, t).stats]_vars

\* calculateStatBounds clamped a current value of 105 to the upper bound 50
\* of an entity with an attached effect, and the call filled the caches
C20_Witness ==
  /\ out.op = "calculateStatBounds"
  /\ out.value[1].isClamped
  /\ out.value[1].currentValue = 50
  /\ out.stats["x"] = 105
  /\ out.passes = 1
  /\ effects # <<>>
  /\ baseStats["x"] = 100

RatioAtMost(result, threshold) ==
  IF result.maxBound = result.minBound THEN 0 <= threshold.num
  ELSE (result.currentValue - result.minBound) * threshold.den
         <= threshold.num * (result.maxBound - result.minBound)

RatioAtLeast(result, threshold) ==
  IF result.maxBound = result.minBound THEN threshold.num <= 0
  ELSE (result.currentValue - result.minBound) * threshold.den
         >= threshold.num * (result.maxBound - result.minBound)

\* |a - b| <= 0.001
WithinTolerance(a, b) == (a - b) * 1000 <= 1 /\ (b - a) * 1000 <= 1

\* C22: getStateDescription returns the one label chosen by the precedence
\* Maximum (within tolerance of max), Minimum (within tolerance of min),
\* Critical (ratio <= critical), Low (ratio <= low), High (ratio >= high),
\* else Normal, with defaults 0.25, 0.5 and 0.75; a value at ratio 0.75 of
\* [0, 100] is labelled High
C22_StateDescription ==
  out.op = "getStateDescription" =>
    LET result == out.value[1].result
        tc == out.value[1].thresholdConfig
        critical == IF tc.critical = None THEN [num |-> 1, den |-> 4]
                    ELSE tc.critical[1]
        low == IF tc.low = None THEN [num |-> 1, den |-> 2] ELSE tc.low[1]
        high == IF tc.high = None THEN [num |-> 3, den |-> 4] ELSE tc.high[1]
        label ==
          IF WithinTolerance(result.currentValue, result.maxBound) THEN "Maximum"
          ELSE IF WithinTolerance(result.currentValue, result.minBound)
            THEN "Minimum"
          ELSE IF RatioAtMost(result, critical) THEN "Critical"
          ELSE IF RatioAtMost(result, low) THEN "Low"
          ELSE IF RatioAtLeast(result, high) THEN "High"
          ELSE "Normal"
    IN  /\ out.value[1].state = label
        /\ (/\ result.currentValue = 75
            /\ result.minBound = 0
            /\ result.maxBound = 100
            /\ tc = DEFAULT_BOUND_THRESHOLDS) => out.value[1].state = "High"

\* getStateDescription was asked about a ratio of 0.5 under thresholds whose
\* high threshold 0.4 lies below the low threshold 0.5, and answered Low
C22_Witness ==
  /\ out.op = "getStateDescription"
  /\ out.value[1].result.currentValue = 50
  /\ out.value[1].result.minBound = 0
  /\ out.value[1].result.maxBound = 100
  /\ out.value[1].thresholdConfig.high = Some(Fraction(2, 5))
  /\ out.value[1].state = "Low"

----------------------------------------------------------------------------
(* Properties of the bound events (SpecEvents) *)

\* The operations that run a bound-event check pass
PassOps == {"setStat", "checkAndEmitBoundEvents"}

\* The events of one type that a pass emitted for a stat
EventsFor(events, type, statType) ==
  SelectSeq(events, LAMBDA e : e.type = type /\ e.key = statType)

\* The result a subscription's pass computes: no effect is attached, so the
\* current stats are the base stats after the step
PassResult(config) ==
  calculateBounds(config.statType, config.boundConfig, baseStats')

\* The change of ratio of a subscription in this pass, as a numerator over
\* a positive denominator; only defined when a ratio is remembered
RatioDelta(config) ==
  LET cur  == calculateRatio(PassResult(config))
      prev == previousBoundRatios[config.statType]
  IN  [num |-> cur.num * prev.den - prev.num * cur.den,
       den |-> cur.den * prev.den]

\* The threshold and the direction gate of a subscription let a change pass
GatesAllow(config, delta) ==
  /\ config.ratioChangeThreshold # None =>
       Abs(delta.num) * config.ratioChangeThreshold[1].den
         >= config.ratioChangeThreshold[1].num * delta.den
  /\ config.positiveChangeOnly => delta.num > 0
  /\ config.negativeChangeOnly => delta.num < 0

\* Every subscription emitted one ratio-changed event when Emits holds of
\* it and none otherwise
RatioEventsAre(Emits(_)) ==
  out'.op \in PassOps =>
    \A i \in 1..Len(boundEventConfigs) :
      LET config == boundEventConfigs[i]
      IN  Len(EventsFor(out'.events, "bound_ratio_changed", config.statType))
            = IF Emits(config) THEN 1 ELSE 0

RatioChangeClaimed(config) ==
  /\ config.statType \in DOMAIN previousBoundRatios
  /\ RatioDelta(config).num # 0
  /\ GatesAllow(config, RatioDelta(config))

RatioChangeAboveTolerance(config) ==
  /\ config.statType \in DOMAIN previousBoundRatios
  /\ Abs(RatioDelta(config).num) * 1000 > RatioDelta(config).den
  /\ GatesAllow(config, RatioDelta(config))

\* C23 as stated: a ratio-changed event is emitted exactly when a previous
\* ratio is remembered, the change is non-zero, and the threshold and the
\* direction gate allow it
C23_AsClaimed == [][RatioEventsAre(RatioChangeClaimed)]_vars

\* C23: in each check pass a ratio-changed event is emitted for a
\* subscription exactly when a previous ratio is remembered, the change
\* from it exceeds 0.001 in absolute value, its absolute value is at least
\* the ratioChangeThreshold when one is configured, and the direction gate
\* allows it; with threshold 0.1 a change 0.50 to 0.55 emits none and 0.50
\* to 0.65 emits one
C23_RatioChanged == [][RatioEventsAre(RatioChangeAboveTolerance)]_vars

\* A subscription with threshold 0.25 that listens to decreases only
\* remembered 0.75, the stat was set to 50, and the pass emitted a
\* ratio-changed event for the change of exactly -0.25
C23_Witness ==
  /\ out.op = "setStat"
  /\ Len(boundEventConfigs) = 1
  /\ boundEventConfigs[1].ratioChangeThreshold = Some(Fraction(1, 4))
  /\ baseStats["x"] = 50
  /\ Len(EventsFor(out.events, "bound_ratio_changed", "x")) = 1
  /\ EventsFor(out.events, "bound_ratio_changed", "x")[1].data.ratioChange
       = Some([num |-> -1, den |-> 4])

\* The label a subscription's pass computes
PassLabel(config) ==
  getStateDescription(PassResult(config),
                      IF config.thresholdConfig = None
                        THEN DEFAULT_BOUND_THRESHOLDS
                        ELSE config.thresholdConfig[1])

\* C24: in each check pass a state-changed event is emitted for a
\* subscription exactly when the label computed in the pass differs from
\* the label remembered for its stat (none being remembered before the first
\* pass), and after the pass the remembered label is the computed one
C24_StateChanged ==
  [][out'.op \in PassOps =>
       \A i \in 1..Len(boundEventConfigs) :
         LET config == boundEventConfigs[i]
             statType == config.statType
             differs == \/ statType \notin DOMAIN previousBoundStates
                        \/ previousBoundStates[statType] # PassLabel(config)
         IN  /\ Len(EventsFor(out'.events, "bound_state_changed", statType))
                  = IF differs THEN 1 ELSE 0
             /\ statType \in DOMAIN previousBoundStates'
             /\ previousBoundStates'[statType] = PassLabel(config)]_vars

\* A pass emitted the state-changed event of a first pass for one stat and
\* none for another whose label remained as remembered
C24_Witness ==
  /\ out.op \in PassOps
  /\ Len(boundEventConfigs) = 2
  /\ Len(EventsFor(out.events, "bound_state_changed", "x")) = 1
  /\ EventsFor(out.events, "bound_state_changed", "x")[1].data.previousState = None
  /\ Len(EventsFor(out.events, "bound_state_changed", "y")) = 0
  /\ previousBoundStates["y"] = "Minimum"

\* The distances of a subscription's pass lie within every window value
\* the subscription configures
WithinWindows(config) ==
  LET result == PassResult(config)
      distanceFromMin == result.currentValue - result.minBound
      distanceFromMax == result.maxBound - result.currentValue
  IN  /\ config.minDistanceFromMin # None =>
           distanceFromMin >= config.minDistanceFromMin[1]
      /\ config.minDistanceFromMax # None =>
           distanceFromMax >= config.minDistanceFromMax[1]
      /\ config.maxDistanceFromMin # None =>
           distanceFromMin <= config.maxDistanceFromMin[1]
      /\ config.maxDistanceFromMax # None =>
           distanceFromMax <= config.maxDistanceFromMax[1]

\* C25: in each check pass a threshold-crossed event is emitted for a
\* subscription exactly when the current distances from min and from max
\* satisfy every configured window value of the subscription, a configured
\* 0 included, whether or not the stat changed since the previous pass
C25_ThresholdCrossed ==
  [][out'.op \in PassOps =>
       \A i \in 1..Len(boundEventConfigs) :
         LET config == boundEventConfigs[i]
         IN  Len(EventsFor(out'.events, "bound_threshold_crossed",
                           config.statType))
               = IF WithinWindows(config) THEN 1 ELSE 0]_vars

\* The bound events of a pass that are about one stat, and the place of an
\* event type in the order of emission
BoundEventsOf(events, statType) ==
  SelectSeq(events, LAMBDA e : /\ e.key = statType
                               /\ e.type \in {"bound_state_changed",
                                              "bound_ratio_changed",
                                              "bound_threshold_crossed"})

Rank(type) ==
  CASE type = "bound_state_changed" -> 1
    [] type = "bound_ratio_changed" -> 2
    [] type = "bound_threshold_crossed" -> 3

\* What is remembered for a stat, as the pass finds it
RememberedRatio(statType) ==
  IF statType \in DOMAIN previousBoundRatios
    THEN Some(previousBoundRatios[statType]) ELSE None

RememberedState(statType) ==
  IF statType \in DOMAIN previousBoundStates
    THEN Some(previousBoundStates[statType]) ELSE None

\* C26: in one check pass of a subscription the state-changed, the
\* ratio-changed and the threshold-crossed event are each emitted at most
\* once, in this order, and each of them reports the previous ratio and
\* state remembered before the pass: the memory is overwritten, with the
\* ratio and state of this pass, only after the three decisions
C26_SameSnapshot ==
  [][out'.op \in PassOps =>
       \A i \in 1..Len(boundEventConfigs) :
         LET config == boundEventConfigs[i]
             statType == config.statType
             events == BoundEventsOf(out'.events, statType)
         IN  /\ \A j \in 1..Len(events) :
                  /\ events[j].data.previousRatio = RememberedRatio(statType)
                  /\ events[j].data.previousState = RememberedState(statType)
                  /\ events[j].data.currentState = PassLabel(config)
                  /\ j > 1 => Rank(events[j - 1].type) < Rank(events[j].type)
             /\ previousBoundRatios'[statType] = calculateRatio(PassResult(config))
             /\ previousBoundStates'[statType] = PassLabel(config)]_vars

\* One pass emitted all three events for x, each reporting the remembered
\* ratio 0.5 and state Low, and left the ratio 0.75 and the state High
\* remembered
C26_Witness ==
  /\ out.op = "setStat"
  /\ Len(BoundEventsOf(out.events, "x")) = 3
  /\ \A j \in 1..3 :
       /\ BoundEventsOf(out.events, "x")[j].data.previousRatio
            = Some([num |-> 1, den |-> 2])
       /\ BoundEventsOf(out.events, "x")[j].data.previousState = Some("Low")
  /\ previousBoundRatios["x"] = [num |-> 3, den |-> 4]
  /\ previousBoundStates["x"] = "High"

----------------------------------------------------------------------------
(* Properties of polled expiry (SpecPoll) *)

\* The attached ids whose expiresAt has passed
PastExpiry ==
  {effectTimings[i].id : i \in {j \in 1..Len(effectTimings) :
                                  /\ effectTimings[j].expiresAt # None
                                  /\ now >= effectTimings[j].expiresAt[1]}}

\* C27: expiry is polled only: an effect whose expiresAt has passed stays
\* attached through every operation but checkExpiredEffects and
\* removeEffect, getCurrentStats still applies it and requestValue is still
\* answered by it
C27_ExpiryPolled ==
  [][/\ out'.op \notin {"checkExpiredEffects", "removeEffect"} =>
          \A id \in PastExpiry : HasId(effects', id)
     /\ out'.op = "getCurrentStats" =>
          /\ out'.stats["x"]
               = baseStats["x"] + (IF HasId(effects, "add") THEN 10 ELSE 0)
          /\ out'.passes = 1 =>
               ("add" \in PastExpiry => "add" \in Range(out'.applied))
     /\ (out'.op = "requestValue" /\ out'.ids = <<"damage">>) =>
          ("aura" \in PastExpiry =>
             out'.value = Some([value |-> 42, provider |-> "aura"]))]_vars

\* getCurrentStats ran a pass that applied the additive effect after its
\* expiresAt had passed
C27_Witness ==
  /\ out.op = "getCurrentStats"
  /\ out.passes = 1
  /\ "add" \in PastExpiry
  /\ "aura" \in PastExpiry
  /\ out.stats["x"] = baseStats["x"] + 10

----------------------------------------------------------------------------
(* Further properties of the stat store and its caches (SpecCache, Spec) *)

\* C28: after setStat changed a base stat, the next getCurrentStats returns
\* what a computation started with empty caches returns, also within 1000 ms
\* of an earlier getCurrentStats: an effect whose isActive depends on base
\* stats and was evaluated inactive before the setStat is included as soon
\* as the new base stats make it active
C28_FreshAfterSetStat ==
  [][(/\ out'.op = "getCurrentStats"
      /\ hist.mutation = "setStat"
      /\ hist.lastCall = None) => out'.stats = FreshStats]_vars

\* The condition of the one attached wrapper holds of the entity's stats
WrapperConditionHolds(e) ==
  CASE e.id = "wthr"   -> baseStats["x"] < 50
    [] e.id = "wcond"  -> baseStats["x"] >= 100
    [] e.id = "wbound" -> baseStats["x"] * 2 <= 100

\* C29: a wrapper built by createConditionalEffect,
\* createBoundConditionalEffect or createStatThresholdEffect invokes the
\* wrapped effect's apply exactly once in a pass in which its condition
\* holds and never otherwise, whatever the number of stat types the wrapped
\* effect lists: with the wrapper alone attached and a wrapped effect that
\* adds 7 to x, the pass yields the base x plus 7, or the base x
C29_WrappedAppliedOnce ==
  (/\ out.op = "getCurrentStats"
   /\ out.passes = 1
   /\ Len(effects) = 1
   /\ effects[1].kind \in Wrappers)
  => out.stats["x"]
       = baseStats["x"] + (IF WrapperConditionHolds(effects[1]) THEN 7 ELSE 0)

Position(seq, id) == CHOOSE i \in 1..Len(seq) : seq[i].id = id

\* C30: effects of equal priority are applied by getCurrentStats in the
\* order in which their ids were first attached.  A computing pass applies
\* two effects of the same priority in the order of their ids in the effect
\* map; addEffect of an attached id leaves the order of the ids as it was,
\* addEffect of a new id puts it last, and removeEffect takes the id out and
\* keeps the order of the others, so that a removed and re-added id is last.
C30_TieBreak ==
  /\ []((out.op = "getCurrentStats" /\ out.passes = 1)
         => \A i, j \in 1..Len(out.applied) :
              (/\ i < j
               /\ Lookup(effects, out.applied[i]).priority
                    = Lookup(effects, out.applied[j]).priority)
              => Position(effects, out.applied[i]) < Position(effects, out.applied[j]))
  /\ [][out'.op = "addEffect" =>
          LET id == out'.ids[1]
          IN  Ids(effects') = IF HasId(effects, id) THEN Ids(effects)
                              ELSE Append(Ids(effects), id)]_vars
  /\ [][out'.op = "removeEffect" =>
          Ids(effects') = SelectSeq(Ids(effects), LAMBDA id : id # out'.ids[1])]_vars

\* C30 witness: the additive effect was attached before the set effect, both
\* at priority 1, and getCurrentStats applied them in that order: x = 50
C30_Witness ==
  /\ out.op = "getCurrentStats" /\ out.passes = 1
  /\ baseStats = [s \in {"x"} |-> 0]
  /\ Ids(effects) = <<"add", "set">>
  /\ effects[1].priority = 1 /\ effects[2].priority = 1
  /\ out.applied = <<"add", "set">>
  /\ out.stats = [s \in {"x"} |-> 50]

----------------------------------------------------------------------------
(* Properties of the cooldown applicator (SpecCooldown) *)

EffectsOf(entityId) == IF entityId = "player" THEN effects ELSE enemy.effects

EffectsAfter(entityId) == IF entityId = "player" THEN effects' ELSE enemy'.effects

\* C31: after a trigger event has added effects to an entity at time t,
\* every further trigger event handled for that entity before
\* t + cooldownDuration adds no effect and returns false; a trigger for an
\* entity to which no trigger has added an effect within cooldownDuration is
\* not held back by the other entity's cooldown: it adds the first effect
\* of effectsToAdd when that effect can stack on the entity.
C31_Cooldown ==
  [][out'.op = "handleEvent" =>
       LET id == out'.ids[1]
       IN  /\ (IsDefined(triggered[id]) /\ now < triggered[id][1] + cooldownDuration)
               => /\ ~out'.ok
                  /\ out'.events = <<>>
                  /\ EffectsAfter(id) = EffectsOf(id)
           /\ (/\ ~(IsDefined(triggered[id])
                     /\ now < triggered[id][1] + cooldownDuration)
               /\ out'.value = Some(triggerEventTypeName)
               /\ canAddEffect(EffectsOf(id), CooldownEffectsToAdd[1]))
               => /\ out'.ok
                  /\ HasId(EffectsAfter(id), CooldownEffectsToAdd[1].id)]_vars

\* C31 witness: a trigger added effects to the player, one millisecond
\* later a trigger for the player was refused, and the enemy has its own
\* effects from a trigger handled while the player was on cooldown
C31_Witness ==
  /\ out.op = "handleEvent" /\ out.ids = <<"player">> /\ ~out.ok
  /\ out.value = Some(triggerEventTypeName)
  /\ triggered["player"] = Some(InitialTime)
  /\ triggered["enemy"] = Some(InitialTime + 1)
  /\ now = InitialTime + 1
  /\ HasId(enemy.effects, "add")

----------------------------------------------------------------------------
(* Further properties of the bound events (SpecEvents) *)

\* C32: the previous-ratio memory of a subscription is overwritten on every
\* check pass, whether or not a ratio-changed event was emitted: after a
\* pass the remembered ratio is the ratio the pass computed, and a pass in
\* which the ratio moved from the remembered one by less than the
\* ratioChangeThreshold emits no ratio-changed event, however far the ratio
\* is from the one of the last emitted event.
C32_MemoryOverwritten ==
  [][out'.op \in PassOps =>
       \A i \in 1..Len(boundEventConfigs) :
         LET config == boundEventConfigs[i]
         IN  /\ previousBoundRatios'[config.statType]
                  = calculateRatio(PassResult(config))
             /\ (/\ config.statType \in DOMAIN previousBoundRatios
                 /\ config.ratioChangeThreshold # None
                 /\ Abs(RatioDelta(config).num) * config.ratioChangeThreshold[1].den
                      < config.ratioChangeThreshold[1].num * RatioDelta(config).den)
                 => EventsFor(out'.events, "bound_ratio_changed",
                              config.statType) = <<>>]_vars

\* C32 witness: a subscription on [0, 100] with threshold 0.25 whose last
\* ratio-changed event carried 0.75 has seen x go down to 50 in steps that
\* each stayed below the threshold: the last pass emitted no ratio-changed
\* event and the remembered ratio is 0.5
C32_Witness ==
  /\ out.op = "setStat"
  /\ Len(boundEventConfigs) = 1
  /\ boundEventConfigs[1].ratioChangeThreshold = Some(Fraction(1, 4))
  /\ "x" \in DOMAIN ratioAtLastEvent
  /\ ratioAtLastEvent["x"] = Fraction(3, 4)
  /\ previousBoundRatios["x"] = Fraction(1, 2)
  /\ EventsFor(out.events, "bound_ratio_changed", "x") = <<>>

----------------------------------------------------------------------------
(* Properties of the events of setStat *)

\* C39: the stat-changed event emitted by setStat(statType, value) carries
\* value equal to the new value and previousValue equal to the base value
\* the stat had before the call.  The data of the event is
\* <<value, previousValue>>.
C39_PreviousValue ==
  [][out'.op = "setStat" =>
       LET e == out'.events[1]
       IN  /\ e.type = "stat_changed"
           /\ e.data = <<baseStats'[e.key], baseStats[e.key]>>]_vars

----------------------------------------------------------------------------
(* Properties of the effect timings (SpecExpiry) *)

DistinctIds(seq) == \A i, j \in 1..Len(seq) : seq[i].id = seq[j].id => i = j

\* C35: in every reachable state the ids with a recorded effect timing are
\* exactly the ids of the attached effects, with at most one effect and one
\* timing per id; adding an id that is already attached leaves one effect
\* and one timing for it, the timing being that of the new call (no expiry
\* when the duration is omitted, now + duration for a positive duration);
\* removeEffect and checkExpiredEffects delete effect and timing together.
C35_TimingsMatchEffects ==
  /\ [](/\ IdSet(effectTimings) = IdSet(effects)
        /\ DistinctIds(effects) /\ DistinctIds(effectTimings))
  /\ [][(out'.op = "addEffect" /\ HasId(effects, out'.ids[1])) =>
          LET id == out'.ids[1]
              duration == out'.events[1].data
              timing == Lookup(effectTimings', id)
          IN  /\ IdSet(effects') = IdSet(effects)
              /\ timing.appliedAt = now
              /\ timing.duration = duration
              /\ duration = None => timing.expiresAt = None
              /\ (duration # None /\ duration[1] > 0)
                   => timing.expiresAt = Some(now + duration[1])]_vars
  /\ [][out'.op \in {"removeEffect", "checkExpiredEffects"} =>
          LET removed == {out'.events[i].key : i \in 1..Len(out'.events)}
          IN  /\ IdSet(effects') = IdSet(effects) \ removed
              /\ IdSet(effectTimings') = IdSet(effectTimings) \ removed]_vars

\* C35 witness: the set effect was attached with a duration of 5000 ms and
\* then added again without one after the clock had advanced: one effect,
\* one timing, and no pending expiry
C35_Witness ==
  /\ out.op = "addEffect" /\ out.ids = <<"set">>
  /\ out.events[1].data = None
  /\ now > InitialTime
  /\ hist.mutation = "addEffect"
  /\ Ids(effects) = <<"add", "set">>
  /\ Lookup(effectTimings, "add").expiresAt = Some(InitialTime + 5000)
  /\ Lookup(effectTimings, "set").expiresAt = None
  /\ Lookup(effectTimings, "set").appliedAt = now

----------------------------------------------------------------------------
(* Properties of gear and its passive effects (SpecResolve) *)

\* The ids of the effects that are attached as passive effects of gear
PassiveEffectIds == UNION {IdSet(g.passiveEffects) : g \in GearPool}

\* C36: after any sequence of equipGear and unequipGear calls every attached
\* passive effect of a gear belongs to a gear that is equipped in some
\* slot.
C36_PassiveEffectsOfEquipped ==
  \A i \in 1..Len(effects) :
    effects[i].id \in PassiveEffectIds
      => \E k \in 1..Len(equippedGear) :
           effects[i].id \in IdSet(equippedGear[k].gear.passiveEffects)

----------------------------------------------------------------------------
(* Properties of the objects handed to callers (SpecCopies) *)

----------------------------------------------------------------------------
(* Properties of the entity with subscribed handlers (SpecHandlers) *)

\* The stats getCurrentStats would return now
StatsNow == getCurrentStats(effects, baseStats, statsCache, effectCache, now).stats

\* C33: when a handler of a bound event calls setStat on the same entity
\* during emission, then after the outermost setStat has returned the
\* remembered previous ratio and state of every subscribed stat are the
\* ratio and the state computed from the entity's current stats.
C33_MemoryAfterReentry ==
  (out.op = "setStat" /\ out.ok)
  => \A i \in 1..Len(boundEventConfigs) :
       LET config == boundEventConfigs[i]
           result == calculateBounds(config.statType, config.boundConfig, StatsNow)
       IN  /\ config.statType \in DOMAIN previousBoundRatios
           /\ config.statType \in DOMAIN previousBoundStates
           /\ previousBoundRatios[config.statType] = calculateRatio(result)
           /\ previousBoundStates[config.statType]
                = getStateDescription(result,
                                      OrElse(config.thresholdConfig,
                                             DEFAULT_BOUND_THRESHOLDS))

\* C34: in every reachable state the stats with a remembered previous ratio
\* or state are among the stats with a registered bound-event subscription,
\* also when unregisterBoundEventConfig is called from a handler during a
\* check pass.
C34_MemoryOfSubscribed ==
  (DOMAIN previousBoundRatios) \cup (DOMAIN previousBoundStates)
    \subseteq {boundEventConfigs[i].statType : i \in 1..Len(boundEventConfigs)}

\* The number of invocations of handler h for events of a type, in a record
\* of invocations
Invocations(record, h, type) ==
  Cardinality({i \in 1..Len(record) :
                 record[i].handler = h.id /\ record[i].type = type})

\* The number of events of a type in a list of events
Emissions(events, type) ==
  Cardinality({i \in 1..Len(events) : events[i].type = type})

\* The value of the last stat_changed event for a stat in a list of events
LastValueSet(events, statType) ==
  LET changes == SelectSeq(events, LAMBDA ev : ev.type = "stat_changed"
                                                /\ ev.key = statType)
  IN  changes[Len(changes)].data[1]

\* C38: a handler that throws during EventSystem.emit does not keep the
\* other handlers of the event's type from being invoked, the event is
\* still appended to the history, and the emitting operation of the entity
\* (addEffect, removeEffect, setStat) returns normally with its change of
\* state in place: every subscribed handler is invoked once for every
\* emitted event of its types, the history grows by the emitted events up to
\* its capacity and ends with them, and the effect is attached, detached or
\* the base stat set.
C38_ThrowingHandlerIsolated ==
  [][out'.op \in {"addEffect", "removeEffect", "setStat"} =>
       LET emittedNow == out'.events
           n == Len(emittedNow)
           k == IF n < maxHistorySize THEN n ELSE maxHistorySize
           total == Len(eventHistory) + n
       IN  /\ out'.ok
           /\ \A h \in Range(handlers) :
                \A ev \in Range(emittedNow) :
                  ev.type \in h.types
                  => Invocations(invoked', h, ev.type) = Emissions(emittedNow, ev.type)
           /\ Len(eventHistory')
                = IF total < maxHistorySize THEN total ELSE maxHistorySize
           /\ \A i \in 1..k :
                eventHistory'[Len(eventHistory') - k + i] \in Range(emittedNow)
           /\ n <= maxHistorySize => Range(emittedNow) \subseteq Range(eventHistory')
           /\ out'.op = "addEffect" => HasId(effects', out'.ids[1])
           /\ out'.op = "removeEffect" => ~HasId(effects', out'.ids[1])
           /\ out'.op = "setStat"
                => baseStats'[out'.ids[1]] = LastValueSet(emittedNow, out'.ids[1])]_vars

\* C38 witness: the throwing handler was invoked for an event before the
\* noting handler was invoked for the same event, the operation returned
\* normally and the event is the last of the history
C38_Witness ==
  /\ out.op \in {"addEffect", "removeEffect", "setStat"}
  /\ out.ok
  /\ Len(invoked) >= 2
  /\ invoked[1].handler = "thrower"
  /\ invoked[2].handler = "logger"
  /\ invoked[1].type = invoked[2].type
  /\ eventHistory # <<>>
  /\ eventHistory[Len(eventHistory)].type = invoked[2].type

====
